---- MODULE Spec2Model ----
(***************************************************************************)
(* A model of the intermolecular-forces particle simulation of             *)
(* src/public/scripts/imfs.js (NeighborGrid and IMFSim, lines 1-1257).     *)
(*                                                                         *)
(* Numbers: the program computes in IEEE doubles; the model computes in    *)
(* fixed point.  Lengths, velocities and the dimensionless                 *)
(* coefficients are integers counting 1/Unit (a position of 3 px is        *)
(* 3 * Unit).  A quotient is rounded toward zero (SDiv), which keeps the   *)
(* sign symmetry of IEEE division: (-a)/b = -(a/b).  Forces and            *)
(* accelerations count 1/AUnit px/s^2 with AUnit = Unit * Unit, so that    *)
(* the small forces near the cutoff radii are not rounded away.            *)
(* Math.floor is the floor division \div.                                  *)
(* floor division \div.  Time stamps of performance.now() are whole        *)
(* milliseconds.  Math.random() and randNorm() are nondeterministic        *)
(* choices from small sets.                                                *)
(***************************************************************************)
EXTENDS Integers, Sequences, FiniteSets, TLC

VARIABLES
  width,      \* IMFSim.width  (imfs.js:154,180), in 1/Unit px
  height,     \* IMFSim.height (imfs.js:155,181)
  particles,  \* IMFSim.particles: sequence of particle records (imfs.js:95-110)
  cells,      \* NeighborGrid.cells: cell index -> sequence of particle indices
  params,     \* IMFSim.params (imfs.js:112-148,159,1518-1539)
  gravityOn,  \* IMFSim.gravityOn (imfs.js:164)
  heatingOn,  \* IMFSim.heatingOn (imfs.js:168)
  lastThermoMs, \* IMFSim.lastThermoMs (imfs.js:167)
  clock,      \* the value performance.now() returns, in ms
  pc,         \* position of the operation under way
  query,      \* arguments <<x, y, radius>> of the last forNeighbors call
  visited,    \* particle indices the last forNeighbors call passed to fn, in order
  forceLog,   \* the terms the neighbor callbacks of the force pass under way evaluated
  frame,      \* locals of step(dt): dt, substeps, the substep and collision pass under way
  coll,       \* locals of resolveCollisions(): loop position, processed pairs
  loop,       \* IMFSim.running, lastMs, frameId and the animation frames requested
              \* (imfs.js:158,162,163,1221-1257)
  app         \* the state of the page mounted beside the simulation: the Blackjack
              \* table (blackjack.js:12-25), the High-Low game (highlow.js) or the
              \* router (main.js)

vars == <<width, height, particles, cells, params, gravityOn, heatingOn,
          lastThermoMs, clock, pc, query, visited, forceLog, frame, coll, loop, app>>

\* the settings and the run-loop fields, which no simulation pass writes
config == <<width, height, params, gravityOn, heatingOn, loop, app>>

----------------------------------------------------------------------------
(* Bounds of the model *)

\* fixed-point resolution: units per pixel (and per 1.0 of a coefficient)
Unit == 100
\* largest number of particles in a scenario of the model
MaxParticles == 2
\* performance.now() when the model starts (ms since the page was loaded)
StartClock == 1000
\* the model stops reading performance.now() this long after the start (ms)
MaxElapsed == 800
MaxClock == StartClock + MaxElapsed
\* step(dt) calls per second of simulated time: dt = 1 / StepsPerSecond
StepsPerSecond == 60
\* step(dt) calls that are followed when random kicks or heating are at work
MaxNoisySteps == 1
\* clock reads of start() and of the frame callback that are followed
MaxLoopReads == 4

\* step calls followed in SpecHeat
MaxHeatSteps == 1

\* the time SpecExpiry follows a particle for (ms)
MaxExpiryElapsed == 2400
\* calls of resolveCollisions() in a row that are followed
MaxCalls == 3
\* the rounding of one position correction: the distance of two corrected
\* particles is known to within SepTol/Unit px
SepTol == 5
\* resolution of forces and accelerations
AUnit == Unit * Unit
\* resolution of thermalEnergy (0..1)
TUnit == Unit * Unit * Unit

----------------------------------------------------------------------------
(* Arithmetic helpers *)

Abs(a) == IF a < 0 THEN -a ELSE a
Min(a, b) == IF a < b THEN a ELSE b
Max(a, b) == IF a > b THEN a ELSE b

\* clamp(value, min, max), imfs.js:10-12
clamp(value, lo, hi) == Max(lo, Min(hi, value))

\* IEEE division a / b in fixed point: rounds toward zero, so the quotient of
\* the negated dividend is the negated quotient
SDiv(a, b) ==
  IF b = 0 THEN 0
  ELSE IF (a >= 0) = (b > 0) THEN Abs(a) \div Abs(b) ELSE -(Abs(a) \div Abs(b))

\* a / b rounded to the nearest integer, for b > 0
Round(a, b) ==
  IF a >= 0 THEN (2 * a + b) \div (2 * b) ELSE -((2 * (-a) + b) \div (2 * b))

RECURSIVE SqrtIter(_, _, _)
SqrtIter(n, lo, hi) ==
  IF lo >= hi THEN lo
  ELSE LET mid == (lo + hi + 1) \div 2
       IN IF mid * mid <= n THEN SqrtIter(n, mid, hi) ELSE SqrtIter(n, lo, mid - 1)

\* floor of the square root, the fixed-point Math.sqrt
ISqrt(n) == IF n <= 0 THEN 0 ELSE SqrtIter(n, 0, Min(n, 46340))

\* a * b / c rounded toward zero, computed without forming a * b
MulDiv(a, b, c) ==
  LET x == Abs(a)
      y == Abs(b)
      q == (x \div c) * y + ((x % c) * y) \div c
  IN IF (a >= 0) = (b >= 0) THEN q ELSE -q

RECURSIVE MulDivBits(_, _, _)
\* <<q, r>> with a * b = q * c + r and 0 <= r < c, for a, b >= 0, by binary long
\* multiplication over the bits of b
MulDivBits(a, b, c) ==
  IF b = 0 THEN <<0, 0>>
  ELSE LET h == MulDivBits(a, b \div 2, c)
           q2 == 2 * h[1] + (2 * h[2]) \div c
           r2 == (2 * h[2]) % c
           bit == b % 2
           r3 == r2 + bit * (a % c)
       IN <<q2 + bit * (a \div c) + r3 \div c, r3 % c>>

\* a * b / c rounded toward zero for operands whose product is not an int
MulDivBig(a, b, c) ==
  LET q == MulDivBits(Abs(a), Abs(b), Abs(c))[1]
  IN IF (a >= 0) = ((b >= 0) = (c > 0)) THEN q ELSE -q

\* 2D vector helpers, imfs.js:28-43
vAdd(a, b) == <<a[1] + b[1], a[2] + b[2]>>
vSub(a, b) == <<a[1] - b[1], a[2] - b[2]>>
\* vMul(a, k) with k a coefficient in 1/Unit
vMul(a, k) == <<MulDiv(a[1], k, Unit), MulDiv(a[2], k, Unit)>>
\* Math.hypot(dx, dy)
Hypot(dx, dy) == ISqrt(dx * dx + dy * dy)
vLen(a) == Hypot(a[1], a[2])
\* vNorm(a): the unit vector in 1/Unit, or <<0, 0>> for a vector of length 0
\* (L > 1e-12 is L > 0 at the model's resolution)
vNorm(a) ==
  LET L == vLen(a)
  IN IF L > 0 THEN <<SDiv(a[1] * Unit, L), SDiv(a[2] * Unit, L)>> ELSE <<0, 0>>

----------------------------------------------------------------------------
(* NeighborGrid, imfs.js:46-93 *)

\* new NeighborGrid(width, height, 24): cellSize = Math.max(8, 24)
CellSize == 24 * Unit
cols == Max(1, width \div CellSize)
rows == Max(1, height \div CellSize)

\* clear(): every cell undefined (here: the empty sequence)
clear == [idx \in 0..(cols * rows - 1) |-> <<>>]

\* cellIndex(x, y): clamped to the grid, no wrapping
cellIndex(x, y) ==
  LET cx == Max(0, Min(cols - 1, x \div CellSize))
      cy == Max(0, Min(rows - 1, y \div CellSize))
  IN cy * cols + cx

\* insert(particle): append particle i to the cell of its position
insert(cs, i) ==
  LET idx == cellIndex(particles[i].pos[1], particles[i].pos[2])
  IN [cs EXCEPT ![idx] = Append(@, i)]

RECURSIVE InsertAll(_, _)
InsertAll(cs, i) ==
  IF i > Len(particles) THEN cs ELSE InsertAll(insert(cs, i), i + 1)

RebuildOnce == IF cells = <<>> THEN InsertAll(clear, 1) ELSE cells

\* the rebuild every pass starts with: clear() then insert() of every particle
\* in index order (imfs.js:275-277, 722-724)
Rebuild == InsertAll(clear, 1)

RECURSIVE Concat(_, _, _)
\* the cells <<cx, cy>> of one row cy, for cx = lo..hi, skipping cells off the grid
Concat(cs, cellSeq, k) ==
  IF k > Len(cellSeq) THEN <<>>
  ELSE LET cx == cellSeq[k][1]
           cy == cellSeq[k][2]
           rest == Concat(cs, cellSeq, k + 1)
       IN IF cx < 0 \/ cx >= cols \/ cy < 0 \/ cy >= rows THEN rest
          ELSE cs[cy * cols + cx] \o rest

\* forNeighbors(x, y, radius, fn): the particles passed to fn, in call order
forNeighbors(cs, x, y, radius) ==
  LET minCx == (x - radius) \div CellSize
      maxCx == (x + radius) \div CellSize
      minCy == (y - radius) \div CellSize
      maxCy == (y + radius) \div CellSize
      nx == maxCx - minCx + 1
      n == nx * (maxCy - minCy + 1)
      cellSeq == [k \in 1..n |->
                    <<minCx + ((k - 1) % nx), minCy + ((k - 1) \div nx)>>]
  IN Concat(cs, cellSeq, 1)

SeqToSet(s) == {s[k] : k \in 1..Len(s)}

\* squared Euclidean distance between two points
Dist2(p, q) == (p[1] - q[1]) * (p[1] - q[1]) + (p[2] - q[2]) * (p[2] - q[2])

InDomain(x, y) == 0 <= x /\ x <= width /\ 0 <= y /\ y <= height

----------------------------------------------------------------------------
(* Particles and parameters *)

\* the run loop after the constructor: not running, no animation frame
\* requested, imfs.js:158,162,163.  pending holds the ids of the requested
\* frames that have neither run nor been cancelled, inFrame says that a frame
\* callback is executing, reads counts the clock reads of start() and loop().
Stopped ==
  [running |-> FALSE, lastMs |-> 0, frameId |-> 0, pending |-> {}, nextId |-> 1,
   inFrame |-> FALSE, reads |-> 0, starts |-> 0]

\* no page is mounted beside the simulation
NoApp == <<>>

\* makeParticle(x, y, kind), imfs.js:95-110, with a given velocity
makeParticle(x, y, v) ==
  [pos |-> <<x, y>>, vel |-> v, acc |-> <<0, 0>>, mass |-> 1, radius |-> 3 * Unit,
   state |-> "liquid", gasUntil |-> 0, localNeighbors |-> 0,
   thermalEnergy |-> 0, lastStateChange |-> 0]

\* the random positions and velocities of the particles that
\* adjustParticleCount adds, imfs.js:207-214
FreshSamples ==
  {<<10 * Unit, 12 * Unit, <<12 * Unit, -6 * Unit>>>>,
   <<33 * Unit, 31 * Unit, <<-8 * Unit, 4 * Unit>>>>}

adjustParticleCountRespawn(ps, targetN, fresh) ==
  LET n == Max(1, targetN)
      kept == [k \in 1..Min(n, Len(ps)) |->
                 [ps[k] EXCEPT !.state = "liquid", !.gasUntil = 0,
                               !.lastStateChange = 0]]
  IN kept \o [k \in 1..(n - Len(kept)) |->
                makeParticle(fresh[k][1], fresh[k][2],
                             <<SDiv(fresh[k][3][1], 2), SDiv(fresh[k][3][2], 2)>>)]

\* adjustParticleCount(targetN), imfs.js:200-217: the particle list after the
\* call; fresh[k] is the random position and velocity of the k-th added one
adjustParticleCount(ps, targetN, fresh) ==
  LET n == Max(1, targetN)
  IN IF Len(ps) > n THEN SubSeq(ps, 1, n)
     ELSE ps \o [k \in 1..(n - Len(ps)) |->
                   makeParticle(fresh[k][1], fresh[k][2],
                                <<SDiv(fresh[k][3][1], 2), SDiv(fresh[k][3][2], 2)>>)]

\* scenarioDefaults("honey") with kT: 1.0, imfs.js:113-124,159
HoneyParams ==
  [sigma |-> 10 * Unit, viscosity |-> 2 * Unit, hbStrength |-> (18 * Unit) \div 10,
   dipole |-> 0, kT |-> Unit, cohLJ |-> 0, cohHB |-> 0, cohDP |-> 0]

\* scenarioDefaults("dmso"), imfs.js:125-136, after applyIMFCoeffsFor(sim, "dmso"),
\* imfs.js:1526-1531, with viscosity v = 1.2
DmsoParams ==
  [sigma |-> 10 * Unit, viscosity |-> (12 * Unit) \div 10,
   hbStrength |-> 0, dipole |-> (156 * Unit) \div 100, kT |-> Unit,
   cohLJ |-> (15 * Unit) \div 10, cohHB |-> Unit, cohDP |-> (194 * Unit) \div 100]

\* scenarioDefaults("hexane"), imfs.js:138-147, with kT set to 0 by the
\* temperature slider, imfs.js:1900
HexaneParams ==
  [sigma |-> 10 * Unit, viscosity |-> (6 * Unit) \div 10, hbStrength |-> 0,
   dipole |-> 0, kT |-> 0, cohLJ |-> 0, cohHB |-> 0, cohDP |-> 0]

\* applyIMFCoeffsFor(sim, kind), imfs.js:1518-1539: the parameters after the
\* call
applyIMFCoeffsFor(p, kind) ==
  LET v == Max(0, p.viscosity)
  IN IF kind = "honey"
     THEN [p EXCEPT !.hbStrength = (16 * v) \div 10, !.dipole = 0,
                    !.cohLJ = Unit + (6 * v) \div 10,
                    !.cohHB = (12 * Unit) \div 10 + (8 * v) \div 10,
                    !.cohDP = Unit]
     ELSE IF kind = "dmso"
     THEN [p EXCEPT !.hbStrength = 0, !.dipole = (13 * v) \div 10,
                    !.cohLJ = (9 * Unit) \div 10 + (5 * v) \div 10,
                    !.cohHB = Unit,
                    !.cohDP = (11 * Unit) \div 10 + (7 * v) \div 10]
     ELSE [p EXCEPT !.hbStrength = 0, !.dipole = 0,
                    !.cohLJ = (7 * Unit) \div 10 + (7 * v) \div 10,
                    !.cohHB = Unit, !.cohDP = Unit]

\* the time performance.now() may have advanced by between two reads (ms)
ClockSteps == {400, 501}

----------------------------------------------------------------------------
(* Force model, imfs.js:230-271 *)

\* r = vLen(rVec) + 1e-9 as a divisor, for vLen(rVec) = L: never zero
RDiv(L) == Max(1, L)
\* r > rCut with r = vLen(rVec) + 1e-9: true from vLen(rVec) = rCut on
Beyond(L, rCut) == L >= rCut
\* vNorm(rVec) for vLen(rVec) = L
Dir(rVec, L) ==
  IF L > 0 THEN <<SDiv(rVec[1] * Unit, L), SDiv(rVec[2] * Unit, L)>> ELSE <<0, 0>>

\* the magnitude of the Lennard-Jones force before the cutoff and the clip,
\* 24 * epsilon * (2 * sr12 - sr6) * (1 / r), in 1/AUnit.  sr = sigma / r is
\* capped at 1.5 and the product at 60 * rCut: past either cap the clip to
\* [-60, 60] decides the result, and the caps keep the fixed-point products in
\* range.
ljMag(L) ==
  LET r == RDiv(L)
      epsilon == (3 * Unit) \div 10 + params.viscosity \div 2
      sr == Min((3 * AUnit) \div 2, SDiv(params.sigma * AUnit, r))
      sr2 == MulDiv(sr, sr, AUnit)
      sr6 == MulDiv(MulDiv(sr2, sr2, AUnit), sr2, AUnit)
      sr12 == MulDiv(sr6, sr6, AUnit)
      rCut == (5 * params.sigma) \div 2
      t == clamp(24 * MulDiv(2 * sr12 - sr6, epsilon, Unit),
                 -60 * Unit * rCut, 60 * Unit * rCut)
  IN SDiv(t * Unit, r)

ljForceNoCutoff(rVec) ==
  LET L == vLen(rVec)
  IN vMul(Dir(rVec, L), -clamp(ljMag(L), -60 * AUnit, 60 * AUnit))

\* ljForce(rVec), imfs.js:231-248
ljForce(rVec) ==
  LET L == vLen(rVec)
      rCut == (5 * params.sigma) \div 2
      mag1 == IF Beyond(L, rCut) THEN 0 ELSE ljMag(L)
      mag == clamp(mag1, -60 * AUnit, 60 * AUnit)
  IN vMul(Dir(rVec, L), -mag)

\* hbForce(rVec), imfs.js:251-260
hbForce(rVec) ==
  LET L == vLen(rVec)
      r == RDiv(L)
      E == params.hbStrength
      rCut == (18 * params.sigma) \div 10
      f == -MulDiv(Max(0, AUnit - SDiv(r * AUnit, rCut)), E, Unit)
  IN IF E <= 0 THEN <<0, 0>>
     ELSE IF Beyond(L, rCut) THEN <<0, 0>>
     ELSE vMul(Dir(rVec, L), f)

dipoleForceNoCutoff(rVec) ==
  LET L == vLen(rVec)
      r == RDiv(L)
      D == params.dipole
      rCut == (22 * params.sigma) \div 10
      f == -SDiv(D * Max(AUnit \div 10, AUnit - SDiv(r * AUnit, rCut)) * Unit, r * r)
  IN IF D <= 0 THEN <<0, 0>> ELSE vMul(Dir(rVec, L), f)

\* dipoleForce(rVec), imfs.js:263-271
dipoleForce(rVec) ==
  LET L == vLen(rVec)
      r == RDiv(L)
      D == params.dipole
      rCut == (22 * params.sigma) \div 10
      f == -SDiv(D * Max(AUnit \div 10, AUnit - SDiv(r * AUnit, rCut)) * Unit, r * r)
  IN IF D <= 0 THEN <<0, 0>>
     ELSE IF Beyond(L, rCut) THEN <<0, 0>>
     ELSE vMul(Dir(rVec, L), f)

\* (this.params.cohLJ || 1): an unset or zero weight counts as 1
OrOne(c) == IF c = 0 THEN Unit ELSE c

gasScaleOneSided(a, b) == IF a.state = "gas" THEN Unit \div 5 ELSE Unit

\* gasScale, imfs.js:297
gasScale(a, b) == IF a.state = "gas" \/ b.state = "gas" THEN Unit \div 5 ELSE Unit

\* liquidCohesionBoost, imfs.js:296,298
liquidCohesionBoost(a, b) ==
  IF a.state = "liquid" /\ b.state = "liquid" THEN (13 * Unit) \div 10 ELSE Unit

\* the three terms the neighbor callback of computeForces evaluates for particle
\* a and its neighbor b, and the force f it adds to a.acc, imfs.js:290-313
PairTerms(a, b) ==
  LET rVec == vSub(b.pos, a.pos)
      lj == ljForce(rVec)
      hb == hbForce(rVec)
      dp == dipoleForce(rVec)
      fLJ == vMul(lj, MulDiv(OrOne(params.cohLJ), liquidCohesionBoost(a, b), Unit))
      fHB == vMul(hb, MulDiv(OrOne(params.cohHB), liquidCohesionBoost(a, b), Unit))
      fDP == vMul(dp, OrOne(params.cohDP))
      g == gasScale(a, b)
  IN [lj |-> lj, hb |-> hb, dp |-> dp,
      fLJ |-> vMul(fLJ, g), fHB |-> vMul(fHB, g), fDP |-> vMul(fDP, g),
      f |-> vAdd(vAdd(vMul(fLJ, g), vMul(fHB, g)), vMul(fDP, g))]

\* rMax of the force pass, imfs.js:278
ForceRMax == 28 * Unit

\* the neighbors the force pass passes to the callback of particle i
ForceNeighbors(cs, i) ==
  forNeighbors(cs, particles[i].pos[1], particles[i].pos[2], ForceRMax)

\* the record of the pair terms of one force pass: for every particle i the
\* terms of every neighbor j its callback ran for (a === b returns at once)
PairLog(cs) ==
  [i \in 1..Len(particles) |->
     [j \in SeqToSet(ForceNeighbors(cs, i)) \ {i} |->
        PairTerms(particles[i], particles[j])]]

\* what the callbacks of particle i add up to, in call order: a.acc and
\* a.localNeighbors, imfs.js:283-315
RECURSIVE AccumulateForces(_, _, _, _)
AccumulateForces(log, i, nb, k) ==
  IF k > Len(nb) THEN [acc |-> <<0, 0>>, localNeighbors |-> 0]
  ELSE LET rest == AccumulateForces(log, i, nb, k + 1)
           a == particles[i]
           b == particles[nb[k]]
           densityCut == (24 * params.sigma) \div 10
           near == IF Hypot(b.pos[1] - a.pos[1], b.pos[2] - a.pos[2]) < densityCut
                   THEN 1 ELSE 0
       IN IF nb[k] = i THEN rest
          ELSE [acc |-> vAdd(log[i][nb[k]].f, rest.acc),
                localNeighbors |-> rest.localNeighbors + near]

\* drag coefficient gamma, imfs.js:317
Gamma == (3 * Unit) \div 10

\* kickSigma = Math.sqrt(2 * gamma * kT), imfs.js:318-319
kickSigmaWarm == ISqrt(2 * SDiv(Gamma * (Max(0, params.kT) + Unit), Unit) * Unit)

kickSigma == ISqrt(2 * SDiv(Gamma * Max(0, params.kT), Unit) * Unit)

\* the values randNorm() takes in the model, imfs.js:19-25
RandNormSamples == {-Unit, Unit}

\* kinetic energy 0.5 * mass * |vel|^2, imfs.js:340
KE(p) == SDiv(p.mass * (p.vel[1] * p.vel[1] + p.vel[2] * p.vel[2]), 2 * Unit)

\* a thermostat that rescales every particle
ThermostattedAll(p) == TRUE

\* the particles the periodic thermostat counts and rescales, imfs.js:338,359
Thermostatted(p) == p.localNeighbors < 3 \/ p.state = "gas"

RECURSIVE SumKE(_, _)
SumKE(ps, i) ==
  IF i > Len(ps) THEN 0
  ELSE (IF Thermostatted(ps[i]) THEN KE(ps[i]) ELSE 0) + SumKE(ps, i + 1)

\* the rescale factor s of the periodic thermostat, imfs.js:345-354;
\* Unit (no rescale) when no particle counts or |s - 1| <= 0.02
ThermoScale(ps) ==
  LET count == Cardinality({i \in 1..Len(ps) : Thermostatted(ps[i])})
      keAvg == SDiv(SumKE(ps, 1), count)
      keTarget == 40 * (Max(0, params.kT) + Unit \div 20)
      ratio == SDiv(keTarget * Unit, keAvg)
      s == IF keAvg = 0 THEN (11 * Unit) \div 10
           ELSE clamp(ISqrt(ratio * Unit), (9 * Unit) \div 10, (11 * Unit) \div 10)
  IN IF count = 0 THEN Unit
     ELSE IF Abs(s - Unit) * 50 > Unit THEN s ELSE Unit

\* computeForces(dt), first part, imfs.js:273-315: the grid is rebuilt, acc and
\* localNeighbors are reset, and every particle sums the forces of its neighbors
ForcePairs(next) ==
  /\ cells' = Rebuild
  /\ forceLog' = PairLog(cells')
  /\ particles' =
       [i \in 1..Len(particles) |->
          LET r == AccumulateForces(forceLog', i, ForceNeighbors(cells', i), 1)
          IN [particles[i] EXCEPT !.acc = r.acc,
                                  !.localNeighbors = r.localNeighbors]]
  /\ pc' = next
  /\ UNCHANGED <<config, lastThermoMs, clock, query, visited, frame, coll>>

\* computeForces(dt), second part, imfs.js:316-324: drag and the random kick
ForceDrag(next) ==
  /\ \E kick \in [1..Len(particles) -> RandNormSamples \X RandNormSamples] :
       particles' =
         [i \in 1..Len(particles) |->
            LET p == particles[i]
            IN [p EXCEPT !.acc =
                  <<p.acc[1] - Gamma * p.vel[1] + kick[i][1] * kickSigma,
                    p.acc[2] - Gamma * p.vel[2] + kick[i][2] * kickSigma>>]]
  /\ pc' = next
  /\ UNCHANGED <<config, cells, lastThermoMs, clock, query, visited, forceLog,
                 frame, coll>>

\* computeForces(dt), last part, imfs.js:325-367: the periodic velocity rescale;
\* performance.now() has advanced by d since it was last read
ForceThermostat(steps, next) ==
  /\ \E d \in steps :
       LET nowT == clock + d
           last == IF lastThermoMs = 0 THEN nowT ELSE lastThermoMs
           fire == nowT - last > 500
           s == ThermoScale(particles)
       IN /\ clock' = nowT
          /\ lastThermoMs' = IF fire THEN nowT ELSE last
          /\ particles' =
               IF fire /\ s # Unit
               THEN [i \in 1..Len(particles) |->
                       IF Thermostatted(particles[i])
                       THEN [particles[i] EXCEPT !.vel = vMul(@, s)]
                       ELSE particles[i]]
               ELSE particles
  /\ pc' = next
  /\ UNCHANGED <<config, cells, query, visited, forceLog, frame, coll>>

----------------------------------------------------------------------------
(* State classifier, imfs.js:589-689 *)

\* minStateDuration, imfs.js:595 (ms)
minStateDuration == 300

\* squared speed v2 = vx^2 + vy^2, in 1/Unit px^2/s^2
Speed2(p) == SDiv(p.vel[1] * p.vel[1] + p.vel[2] * p.vel[2], Unit)

\* vGas2 = c1 * kT + c2 * epsBase with epsBase = 0.15 + 0.25 * viscosity,
\* imfs.js:590-592,604
vGas2 == 120 * params.kT + 10 * ((15 * Unit) \div 100 + params.viscosity \div 4)

\* thermalEnergy as a coefficient in 1/Unit
Thermal100(p) == p.thermalEnergy \div AUnit

effectiveMinDurationHalved(p) == minStateDuration \div 2

\* effectiveMinDuration of a liquid particle, imfs.js:611-614
effectiveMinDuration(p) ==
  IF 10 * p.thermalEnergy > 7 * TUnit THEN minStateDuration \div 2
  ELSE minStateDuration

\* the branch of a liquid particle, imfs.js:608-656
ClassifyLiquid(p, nowS) ==
  LET v2 == Speed2(p)
      te == p.thermalEnergy
      surfaceThreshold == (9 * vGas2) \div 10
      baseEscapeThreshold == (15 * vGas2) \div 10
      escapeThreshold == MulDiv(baseEscapeThreshold, Unit - Thermal100(p) \div 2, Unit)
      veryHotBonus == IF 10 * te > 7 * TUnit THEN Unit \div 5 ELSE 0
      finalThreshold == MulDiv(escapeThreshold, Unit - veryHotBonus, Unit)
      boost(k) == IF p.vel[2] < 50 * Unit THEN <<p.vel[1], p.vel[2] - k * Unit>>
                  ELSE p.vel
  IN IF nowS - p.lastStateChange < effectiveMinDuration(p) THEN p
     ELSE IF p.localNeighbors < 3
     THEN IF v2 > surfaceThreshold /\ 10 * te > 2 * TUnit
          THEN [p EXCEPT !.state = "gas", !.gasUntil = nowS + 1500,
                         !.lastStateChange = nowS, !.vel = boost(30)]
          ELSE p
     ELSE IF v2 > finalThreshold /\ 10 * te > 4 * TUnit
          THEN [p EXCEPT !.state = "gas", !.gasUntil = nowS + 2000,
                         !.lastStateChange = nowS, !.vel = boost(40)]
          ELSE p

ClassifyGasResetInZone(p, nowS) ==
  LET v2 == Speed2(p)
      te == p.thermalEnergy
      isRising == p.vel[2] < -10 * Unit
      isNearTop == 10 * p.pos[2] < 2 * height
      condenseThreshold == IF isRising THEN (3 * vGas2) \div 10 ELSE vGas2 \div 2
      cool == 10 * te < 2 * TUnit
      condense == \/ (v2 < condenseThreshold /\ cool /\ ~isRising)
                  \/ (isNearTop /\ cool /\ 10 * v2 < 8 * vGas2)
                  \/ (p.localNeighbors >= 3 /\ ~isRising /\ cool)
  IN IF nowS - p.lastStateChange < minStateDuration THEN p
     ELSE IF condense
     THEN [p EXCEPT !.state = "liquid", !.lastStateChange = nowS,
                    !.thermalEnergy =
                       IF 10 * (p.pos[2] + p.radius) >= 9 * height
                       THEN Max(0, te \div 2) ELSE te]
     ELSE p

\* the branch of a gas particle, imfs.js:657-688
ClassifyGas(p, nowS) ==
  LET v2 == Speed2(p)
      te == p.thermalEnergy
      isRising == p.vel[2] < -10 * Unit
      isNearTop == 10 * p.pos[2] < 2 * height
      condenseThreshold == IF isRising THEN (3 * vGas2) \div 10 ELSE vGas2 \div 2
      cool == 10 * te < 2 * TUnit
      condense == \/ (v2 < condenseThreshold /\ cool /\ ~isRising)
                  \/ (isNearTop /\ cool /\ 10 * v2 < 8 * vGas2)
                  \/ (p.localNeighbors >= 3 /\ ~isRising /\ cool)
  IN IF nowS - p.lastStateChange < minStateDuration THEN p
     ELSE IF condense
     THEN [p EXCEPT !.state = "liquid", !.lastStateChange = nowS,
                    !.thermalEnergy =
                       IF 10 * (p.pos[2] + p.radius) < 9 * height
                       THEN Max(0, te \div 2) ELSE te]
     ELSE p

\* the state update of one particle at time nowS
Classify(p, nowS) ==
  IF p.state = "liquid" THEN ClassifyLiquid(p, nowS) ELSE ClassifyGas(p, nowS)

\* the state update of step(dt), imfs.js:589-689; performance.now() has
\* advanced by d since it was last read
UpdateStates(steps, next) ==
  /\ \E d \in steps :
       /\ clock' = clock + d
       /\ particles' = [i \in 1..Len(particles) |-> Classify(particles[i], clock + d)]
  /\ pc' = next
  /\ UNCHANGED <<config, cells, lastThermoMs, query, visited, forceLog, frame, coll>>

----------------------------------------------------------------------------
(* Collision resolver, imfs.js:719-863 *)

\* rMax of the collision pass, imfs.js:720
CollideRMax == 16 * Unit

pairKeyOrdered(i, j) == <<i, j>>

\* pairKey: always the smaller index first, imfs.js:744
pairKey(i, j) == IF i < j THEN <<i, j>> ELSE <<j, i>>

\* groundedA / groundedB, imfs.js:764-765
Grounded(p) == 10 * p.pos[2] >= 10 * (height - p.radius) - 6 * Unit

\* the contact normal (nx, ny) = (dx / dist, dy / dist) in 1/AUnit, with
\* dist = Math.hypot(dx, dy) || 1e-9: for dx = dy = 0 both quotients are 0
Normal(dx, dy) ==
  LET d == Hypot(dx, dy)
  IN IF d = 0 THEN <<0, 0>> ELSE <<SDiv(dx * AUnit, d), SDiv(dy * AUnit, d)>>

\* v * k for a normal component or factor k in 1/AUnit
Along(v, k) == MulDiv(v, k, AUnit)

\* <<moveA, moveB>>: the overlap split by inverse mass, all of it on the other
\* body when one body is grounded and would be pushed into the floor,
\* imfs.js:756-775
Split(a, b, overlap, ny) ==
  LET moveA == SDiv(overlap * b.mass, a.mass + b.mass)
      moveB == SDiv(overlap * a.mass, a.mass + b.mass)
  IN IF Grounded(a) /\ ~Grounded(b) /\ ny < 0 THEN <<0, overlap>>
     ELSE IF ~Grounded(a) /\ Grounded(b) /\ ny > 0 THEN <<overlap, 0>>
     ELSE <<moveA, moveB>>

\* the position correction of an overlapping pair, imfs.js:752-793: the two
\* positions after it.  (ax, ay) is the position of a read when its neighbor
\* loop started.
Corrected(a, b, ax, ay) ==
  LET dx == b.pos[1] - ax
      dy == b.pos[2] - ay
      minDist == a.radius + b.radius
      n == Normal(dx, dy)
      overlap == minDist - Hypot(dx, dy)
      mv == Split(a, b, overlap, n[2])
      a1 == <<a.pos[1] - Along(mv[1], n[1]), a.pos[2] - Along(mv[1], n[2])>>
      b1 == <<b.pos[1] + Along(mv[2], n[1]), b.pos[2] + Along(mv[2], n[2])>>
      dist2 == Hypot(b1[1] - a1[1], b1[2] - a1[2])
      n2 == Normal(b1[1] - a1[1], b1[2] - a1[2])
      half == (minDist - dist2) \div 2
  IN IF 100 * dist2 < 99 * minDist
     THEN <<<<a1[1] - Along(half, n2[1]), a1[2] - Along(half, n2[2])>>,
            <<b1[1] + Along(half, n2[1]), b1[2] + Along(half, n2[2])>>>>
     ELSE <<a1, b1>>

\* vn = rvx * nx + rvy * ny, imfs.js:795-797
NormalSpeed(a, b, n) ==
  SDiv((b.vel[1] - a.vel[1]) * n[1] + (b.vel[2] - a.vel[2]) * n[2], AUnit)

\* j = -(1 + e) * vn / (1 / ma + 1 / mb) with e = 0.2, imfs.js:799
ImpulseJ(a, b, vn) == -SDiv(12 * vn * a.mass * b.mass, 10 * (a.mass + b.mass))

NormalImpulseOneSided(a, b, n, j) ==
  <<<<a.vel[1] - SDiv(Along(j, n[1]), a.mass), a.vel[2] - SDiv(Along(j, n[2]), a.mass)>>,
    b.vel>>

\* the velocities after the normal impulse, imfs.js:800-805
NormalImpulse(a, b, n, j) ==
  <<<<a.vel[1] - SDiv(Along(j, n[1]), a.mass), a.vel[2] - SDiv(Along(j, n[2]), a.mass)>>,
    <<b.vel[1] + SDiv(Along(j, n[1]), b.mass), b.vel[2] + SDiv(Along(j, n[2]), b.mass)>>>>

\* the velocities after the friction impulse, imfs.js:806-823.  A tangent no
\* longer than 2/Unit is the rounding of the model and counts as tl <= 1e-6.
Friction(a, b, n, j) ==
  LET rvx == b.vel[1] - a.vel[1]
      rvy == b.vel[2] - a.vel[2]
      rn == SDiv(rvx * n[1] + rvy * n[2], AUnit)
      tx == rvx - Along(rn, n[1])
      ty == rvy - Along(rn, n[2])
      tl == Hypot(tx, ty)
      t == <<SDiv(tx * AUnit, tl), SDiv(ty * AUnit, tl)>>
      jt == -SDiv(3 * Abs(j), 10)
  IN IF tl > 2
     THEN <<<<a.vel[1] - SDiv(Along(jt, t[1]), a.mass),
              a.vel[2] - SDiv(Along(jt, t[2]), a.mass)>>,
            <<b.vel[1] + SDiv(Along(jt, t[1]), b.mass),
              b.vel[2] + SDiv(Along(jt, t[2]), b.mass)>>>>
     ELSE <<a.vel, b.vel>>

\* the factor Math.sqrt((2 * newKe) / (m * vMag * vMag)) in 1/Unit
ConductScale(newKe, m, vMag) ==
  ISqrt(MulDivBig(2 * newKe * Unit, AUnit, m * vMag * vMag))

\* the velocities after the exchange of kinetic energy, imfs.js:824-858
Conduct(a, b) ==
  LET keA == KE(a)
      keB == KE(b)
      dE == SDiv(15 * (keA - keB), 100)
      newKeA == Max(Unit \div 2, keA - dE)
      newKeB == Max(Unit \div 2, keB + dE)
      vMagA == Hypot(a.vel[1], a.vel[2])
      vMagB == Hypot(b.vel[1], b.vel[2])
  IN IF 10 * Abs(dE) > Unit /\ 2 * (keA + keB) > Unit /\ vMagA > 0 /\ vMagB > 0
     THEN <<vMul(a.vel, ConductScale(newKeA, a.mass, vMagA)),
            vMul(b.vel, ConductScale(newKeB, b.mass, vMagB))>>
     ELSE <<a.vel, b.vel>>

\* the neighbors of particle i in the collision pass, from the grid as rebuilt
\* when the pass began, around the position of i when its loop starts
CollideNeighbors(i) ==
  forNeighbors(cells, particles[i].pos[1], particles[i].pos[2], CollideRMax)

\* the locals of the loop over particle i: a, ax, ay and the neighbors to come
LoopOf(c, i) ==
  [c EXCEPT !.i = i, !.k = 1, !.ax = particles[i].pos[1], !.ay = particles[i].pos[2],
            !.nb = CollideNeighbors(i)]

\* resolveCollisions() begins: the grid is rebuilt and processed is empty,
\* imfs.js:719-731
CollideBegin ==
  /\ cells' = Rebuild
  /\ coll' = [i |-> 1, k |-> 1,
              ax |-> IF Len(particles) > 0 THEN particles[1].pos[1] ELSE 0,
              ay |-> IF Len(particles) > 0 THEN particles[1].pos[2] ELSE 0,
              nb |-> IF Len(particles) > 0
                     THEN forNeighbors(cells', particles[1].pos[1],
                                       particles[1].pos[2], CollideRMax)
                     ELSE <<>>,
              processed |-> {}, tested |-> <<>>, n |-> <<0, 0>>, j |-> 0]
  /\ pc' = "pair"
  /\ UNCHANGED <<config, particles, lastThermoMs, clock, query, visited, forceLog,
                 frame>>

\* the neighbor callback returns at once: b is a itself, or the pair is in
\* processed, imfs.js:733-745
PairSkip ==
  /\ pc = "pair"
  /\ coll.k <= Len(coll.nb)
  /\ \/ coll.nb[coll.k] = coll.i
     \/ pairKey(coll.i, coll.nb[coll.k]) \in coll.processed
  /\ coll' = [coll EXCEPT !.k = @ + 1]
  /\ UNCHANGED <<config, particles, cells, lastThermoMs, clock, pc, query, visited,
                 forceLog, frame>>

\* the neighbor callback runs for a new pair: the pair is recorded, the overlap
\* is tested and an overlapping pair is moved apart, imfs.js:746-793
PairTest ==
  /\ pc = "pair"
  /\ coll.k <= Len(coll.nb)
  /\ coll.nb[coll.k] # coll.i
  /\ pairKey(coll.i, coll.nb[coll.k]) \notin coll.processed
  /\ LET i == coll.i
         jj == coll.nb[coll.k]
         a == particles[i]
         b == particles[jj]
         dx == b.pos[1] - coll.ax
         dy == b.pos[2] - coll.ay
         hit == Hypot(dx, dy) < a.radius + b.radius
         moved == Corrected(a, b, coll.ax, coll.ay)
     IN /\ coll' = [coll EXCEPT !.processed = @ \cup {pairKey(i, jj)},
                                !.tested = Append(@, <<i, jj>>),
                                !.n = Normal(dx, dy),
                                !.k = IF hit THEN @ ELSE @ + 1]
        /\ particles' = IF hit
                        THEN [particles EXCEPT ![i].pos = moved[1], ![jj].pos = moved[2]]
                        ELSE particles
        /\ pc' = IF hit THEN "impulse" ELSE "pair"
  /\ UNCHANGED <<config, cells, lastThermoMs, clock, query, visited, forceLog, frame>>

\* the velocity impulse along the normal, applied when the pair approaches
\* (vn < 0), imfs.js:794-805
PairImpulse ==
  /\ pc = "impulse"
  /\ LET i == coll.i
         jj == coll.nb[coll.k]
         a == particles[i]
         b == particles[jj]
         vn == NormalSpeed(a, b, coll.n)
         j == ImpulseJ(a, b, vn)
         v == NormalImpulse(a, b, coll.n, j)
     IN IF vn < 0
        THEN /\ particles' = [particles EXCEPT ![i].vel = v[1], ![jj].vel = v[2]]
             /\ coll' = [coll EXCEPT !.j = j]
             /\ pc' = "friction"
        ELSE /\ particles' = particles
             /\ coll' = [coll EXCEPT !.k = @ + 1]
             /\ pc' = "pair"
  /\ UNCHANGED <<config, cells, lastThermoMs, clock, query, visited, forceLog, frame>>

\* the friction impulse along the tangent, imfs.js:806-823
PairFriction ==
  /\ pc = "friction"
  /\ LET i == coll.i
         jj == coll.nb[coll.k]
         v == Friction(particles[i], particles[jj], coll.n, coll.j)
     IN particles' = [particles EXCEPT ![i].vel = v[1], ![jj].vel = v[2]]
  /\ pc' = "conduct"
  /\ UNCHANGED <<config, cells, lastThermoMs, clock, query, visited, forceLog, frame,
                 coll>>

\* the exchange of kinetic energy, imfs.js:824-858
PairConduct ==
  /\ pc = "conduct"
  /\ LET i == coll.i
         jj == coll.nb[coll.k]
         v == Conduct(particles[i], particles[jj])
     IN particles' = [particles EXCEPT ![i].vel = v[1], ![jj].vel = v[2]]
  /\ coll' = [coll EXCEPT !.k = @ + 1]
  /\ pc' = "pair"
  /\ UNCHANGED <<config, cells, lastThermoMs, clock, query, visited, forceLog, frame>>

\* the neighbors of particle i are done: the loop goes on with particle i + 1,
\* imfs.js:728-732
PairNextParticle ==
  /\ pc = "pair"
  /\ coll.k > Len(coll.nb)
  /\ coll.i < Len(particles)
  /\ coll' = LoopOf(coll, coll.i + 1)
  /\ UNCHANGED <<config, particles, cells, lastThermoMs, clock, pc, query, visited,
                 forceLog, frame>>

CollideDoneAtLast ==
  /\ pc = "pair"
  /\ coll.k > Len(coll.nb)
  /\ coll.i = Len(particles)

\* the loop over the particles is done: resolveCollisions() returns
CollideDone ==
  /\ pc = "pair"
  /\ coll.k > Len(coll.nb)
  /\ coll.i >= Len(particles)

----------------------------------------------------------------------------
(* step(dt), imfs.js:370-691, and handleWalls(p), imfs.js:693-717 *)

\* this.heatAccel, imfs.js:169
heatAccel == 80

\* the periodic boundary the engine does not apply: the position taken modulo
\* the size of the domain
wrap(p) == [p EXCEPT !.pos = <<p.pos[1] % width, p.pos[2] % height>>]

\* handleWalls(p): a particle past a wall is put back at one radius from it,
\* its velocity towards the wall reversed and scaled by e = 0.2; floor and
\* ceiling also scale the horizontal velocity by fx = 0.98
handleWalls(p) ==
  LET r == p.radius
      p1 == IF p.pos[1] < r
            THEN [p EXCEPT !.pos[1] = r, !.vel[1] = SDiv(-2 * p.vel[1], 10)]
            ELSE p
      p2 == IF p1.pos[1] > width - r
            THEN [p1 EXCEPT !.pos[1] = width - r, !.vel[1] = SDiv(-2 * p1.vel[1], 10)]
            ELSE p1
      p3 == IF p2.pos[2] < r
            THEN [p2 EXCEPT !.pos[2] = r, !.vel[2] = SDiv(-2 * p2.vel[2], 10),
                            !.vel[1] = SDiv(98 * p2.vel[1], 100)]
            ELSE p2
  IN IF p3.pos[2] > height - r
     THEN [p3 EXCEPT !.pos[2] = height - r, !.vel[2] = SDiv(-2 * p3.vel[2], 10),
                     !.vel[1] = SDiv(98 * p3.vel[1], 100)]
     ELSE p3

RECURSIVE MaxSpeed(_, _)
\* maxSpeed over the particles from index i on, imfs.js:373-378
MaxSpeed(ps, i) ==
  IF i > Len(ps) THEN 0
  ELSE Max(Hypot(ps[i].vel[1], ps[i].vel[2]), MaxSpeed(ps, i + 1))

\* safeDisp, imfs.js:379-380
SafeDisp ==
  Max(2 * Unit, (IF Len(particles) > 0 THEN particles[1].radius ELSE 3 * Unit) \div 2)

\* a substep count that rounds down
SubstepsRoundedDown(num, den) ==
  IF gravityOn THEN Min(12, Max(2, (MaxSpeed(particles, 1) * num) \div (den * SafeDisp)))
  ELSE 1

\* the number of substeps of a step, imfs.js:371-385, for dt = num / den
Substeps(num, den) ==
  LET minR == (IF Len(particles) > 0 THEN particles[1].radius ELSE 3 * Unit) \div 2
      safeDisp == Max(2 * Unit, minR)
      d == den * safeDisp
      need == (MaxSpeed(particles, 1) * num + d - 1) \div d
  IN IF gravityOn THEN Min(12, Max(2, need)) ELSE 1

\* x * dtStep for dtStep = dt / substeps, imfs.js:386
DtStep(x) == Round(x * frame.num, frame.den * frame.substeps)

\* the values Math.random() - 0.5 takes in the model, in halves
RandHalfSamples == {-1, 1}

\* the directions (cos(ang), sin(ang)) a random angle takes in the model
RandDirs == {<<1, 0>>, <<0, 1>>, <<-1, 0>>, <<0, -1>>}

\* heatIntensity of a particle in the heating zone, in 1/Unit, imfs.js:421-468
HeatIntensity(p) ==
  LET zoneH == height \div 10
      nd == clamp(SDiv((height - (p.pos[2] + p.radius)) * Unit, zoneH), 0, Unit)
      vertical == Unit - (8 * nd) \div 10
      spacing == width \div 4
      hotR == (15 * width) \div 100
      strength == <<Unit, (85 * Unit) \div 100, (70 * Unit) \div 100>>
      hot(h) == LET ndh == Min(Unit, SDiv(Abs(p.pos[1] - spacing * h) * Unit, hotR))
                IN ((Unit - ndh) * (Unit - ndh)) \div Unit
      total == hot(1) + hot(2) + hot(3)
      weighted == (hot(1) * strength[1] + hot(2) * strength[2]
                   + hot(3) * strength[3]) \div Unit
      avg == IF total > 0 THEN SDiv(weighted * Unit, total) ELSE (70 * Unit) \div 100
      horizontal == (30 * Unit) \div 100 + (7 * total * avg) \div (10 * Unit)
  IN (vertical * horizontal) \div Unit

HeatedUncapped(p, rnd) ==
  LET hI == HeatIntensity(p)
      te == p.thermalEnergy + DtStep((3 * hI * AUnit) \div 100)
      vy == IF 10 * te > 2 * TUnit THEN p.vel[2] + DtStep(-40 * (te \div AUnit))
            ELSE p.vel[2]
      vib == 60 * (te \div Unit)
      scaled == heatAccel * hI * Unit
      sp == Hypot(p.vel[1], vy)
      push == IF sp > 0 THEN <<MulDiv(scaled, p.vel[1], sp), MulDiv(scaled, vy, sp)>>
              ELSE <<rnd[3][1] * scaled, rnd[3][2] * scaled>>
  IN [p EXCEPT !.thermalEnergy = te,
               !.vel = <<p.vel[1], vy>>,
               !.acc = <<p.acc[1] + rnd[1] * vib + push[1],
                         p.acc[2] - 2000 * (te \div Unit) + rnd[2] * vib + push[2]>>]

\* a particle in the heating zone while heating is on, imfs.js:420-512;
\* rnd = <<vibrationX, vibrationY, direction>> are its random draws
Heated(p, rnd) ==
  LET hI == HeatIntensity(p)
      te == Min(TUnit, p.thermalEnergy + DtStep((3 * hI * AUnit) \div 100))
      vy == IF 10 * te > 2 * TUnit THEN p.vel[2] + DtStep(-40 * (te \div AUnit))
            ELSE p.vel[2]
      vib == 60 * (te \div Unit)
      scaled == heatAccel * hI * Unit
      sp == Hypot(p.vel[1], vy)
      push == IF sp > 0 THEN <<MulDiv(scaled, p.vel[1], sp), MulDiv(scaled, vy, sp)>>
              ELSE <<rnd[3][1] * scaled, rnd[3][2] * scaled>>
  IN [p EXCEPT !.thermalEnergy = te,
               !.vel = <<p.vel[1], vy>>,
               !.acc = <<p.acc[1] + rnd[1] * vib + push[1],
                         p.acc[2] - 2000 * (te \div Unit) + rnd[2] * vib + push[2]>>]

\* a particle outside the heating zone while heating is on, imfs.js:513-538
Carrying(p, rnd) ==
  LET te == Max(0, p.thermalEnergy - DtStep((15 * TUnit) \div 1000))
      vy == IF 10 * te > 2 * TUnit THEN p.vel[2] + DtStep(-35 * (te \div AUnit))
            ELSE p.vel[2]
      vib == 40 * (te \div Unit)
  IN IF 10 * te > TUnit
     THEN [p EXCEPT !.thermalEnergy = te,
                    !.vel = <<p.vel[1], vy>>,
                    !.acc = <<p.acc[1] + rnd[1] * vib,
                              p.acc[2] - 1800 * (te \div Unit) + rnd[2] * vib>>]
     ELSE [p EXCEPT !.thermalEnergy = te]

\* gravity, heating or dissipation, and buoyancy for one particle,
\* imfs.js:390-559
External(p, rnd) ==
  LET g == IF gravityOn THEN [p EXCEPT !.acc[2] = @ + 900 * AUnit] ELSE p
      h == IF heatingOn
           THEN IF g.pos[2] + g.radius >= height - height \div 10
                THEN Heated(g, rnd) ELSE Carrying(g, rnd)
           ELSE [g EXCEPT !.thermalEnergy = Max(0, @ - DtStep((2 * TUnit) \div 100))]
  IN IF gravityOn /\ h.state = "gas" THEN [h EXCEPT !.acc[2] = @ - 300 * AUnit] ELSE h

\* an integration that moves the particle before it accelerates it
IntegratePositionFirst(p, rnd) ==
  LET vx == p.vel[1] + DtStep(SDiv(p.acc[1], p.mass * Unit))
      vy == p.vel[2] + DtStep(SDiv(p.acc[2], p.mass * Unit))
      x == p.pos[1] + DtStep(p.vel[1])
      y == p.pos[2] + DtStep(p.vel[2])
      vib == 4 * (p.thermalEnergy \div AUnit)
      hot == 10 * p.thermalEnergy > TUnit
  IN handleWalls([p EXCEPT !.pos = <<x, y>>,
                           !.vel = IF hot THEN <<vx + rnd[1] * vib, vy + rnd[2] * vib>>
                                   ELSE <<vx, vy>>])

\* the integration of one particle and its wall handling, imfs.js:561-579;
\* rnd = <<x, y>> are the random draws of the velocity vibration
Integrate(p, rnd) ==
  LET vx == p.vel[1] + DtStep(SDiv(p.acc[1], p.mass * Unit))
      vy == p.vel[2] + DtStep(SDiv(p.acc[2], p.mass * Unit))
      x == p.pos[1] + DtStep(vx)
      y == p.pos[2] + DtStep(vy)
      vib == 4 * (p.thermalEnergy \div AUnit)
      hot == 10 * p.thermalEnergy > TUnit
  IN handleWalls([p EXCEPT !.pos = <<x, y>>,
                           !.vel = IF hot THEN <<vx + rnd[1] * vib, vy + rnd[2] * vib>>
                                   ELSE <<vx, vy>>])

\* the random draws of one pass over the particles: one element of S for each
\* particle, a single combination when none of them is used
Draws(S, used) ==
  IF used THEN [1..Len(particles) -> S]
  ELSE {[i \in 1..Len(particles) |-> CHOOSE x \in S : TRUE]}

\* step(dt) begins: the number of substeps is fixed, imfs.js:370-386
StepBegin ==
  /\ pc = "idle"
  /\ frame.steps < frame.limit
  /\ frame' = [frame EXCEPT !.substeps = Substeps(frame.num, frame.den),
                            !.s = 0, !.it = 0]
  /\ pc' = "forces"
  /\ UNCHANGED <<config, particles, cells, lastThermoMs, clock, query, visited,
                 forceLog, coll>>

\* the three parts of computeForces(dtStep), imfs.js:389
StepForcePairs == pc = "forces" /\ ForcePairs("drag")
StepForceDrag == pc = "drag" /\ ForceDrag("thermostat")
StepForceThermostat == pc = "thermostat" /\ ForceThermostat({frame.tick}, "external")

\* gravity, heating or dissipation, buoyancy, imfs.js:390-559
StepExternal ==
  /\ pc = "external"
  /\ \E rnd \in Draws(RandHalfSamples \X RandHalfSamples \X RandDirs, heatingOn) :
       particles' = [i \in 1..Len(particles) |-> External(particles[i], rnd[i])]
  /\ pc' = "integrate"
  /\ UNCHANGED <<config, cells, lastThermoMs, clock, query, visited, forceLog, frame,
                 coll>>

\* integration and wall handling, imfs.js:560-579
StepIntegrate ==
  /\ pc = "integrate"
  /\ \E rnd \in Draws(RandHalfSamples \X RandHalfSamples,
                      \E i \in 1..Len(particles) : 10 * particles[i].thermalEnergy > TUnit) :
       particles' = [i \in 1..Len(particles) |-> Integrate(particles[i], rnd[i])]
  /\ pc' = "collide"
  /\ UNCHANGED <<config, cells, lastThermoMs, clock, query, visited, forceLog, frame,
                 coll>>

\* one of the 5 collision iterations begins, imfs.js:581-582
StepCollide == pc = "collide" /\ CollideBegin

\* resolveCollisions() has returned: every particle is re-clamped to the walls
\* and the next iteration or the state update follows, imfs.js:583-588
StepRewall ==
  /\ CollideDone
  /\ particles' = [i \in 1..Len(particles) |-> handleWalls(particles[i])]
  /\ frame' = [frame EXCEPT !.it = @ + 1]
  /\ pc' = IF frame.it + 1 < 5 THEN "collide" ELSE "classify"
  /\ UNCHANGED <<config, cells, lastThermoMs, clock, query, visited, forceLog, coll>>

\* the state update, imfs.js:589-689
StepClassify == pc = "classify" /\ UpdateStates({0}, "substep")

\* the substep is done: the next one follows, or step(dt) returns, imfs.js:387
StepNextSubstep ==
  /\ pc = "substep"
  /\ frame' = [frame EXCEPT !.s = @ + 1, !.it = 0,
                            !.steps = IF frame.s + 1 < frame.substeps THEN @ ELSE @ + 1]
  /\ pc' = IF frame.s + 1 < frame.substeps THEN "forces" ELSE "idle"
  /\ UNCHANGED <<config, particles, cells, lastThermoMs, clock, query, visited,
                 forceLog, coll>>

----------------------------------------------------------------------------
(* The run loop: loop(now), start(), stop() and the visibility handler,     *)
(* imfs.js:171-173,1221-1257.  Time is in ms.                               *)

\* the wall-clock time that may pass before start() or a frame callback runs
LoopGaps == {1, 40}

\* by how much the timestamp of a frame may precede the clock
FrameSkews == {0, 2}

LoopDtRaw(now, last) == now - last

\* dt = clamp((now - this.lastMs) / 1000, 0, 0.033), in ms, imfs.js:1223
LoopDt(now, last) == clamp(now - last, 0, 33)

\* requestAnimationFrame(this.loop): a new frame is pending and frameId names it
Requested(l) ==
  [l EXCEPT !.frameId = l.nextId, !.pending = @ \cup {l.nextId}, !.nextId = @ + 1]

HaltedNoCancel(l) == [l EXCEPT !.running = FALSE, !.frameId = 0]

\* stop(), imfs.js:1253-1257
Halted(l) ==
  [l EXCEPT !.running = FALSE, !.frameId = 0,
            !.pending = IF l.frameId # 0 THEN @ \ {l.frameId} ELSE @]

\* start(), imfs.js:1247-1252; nothing happens when the loop is running
LoopStart ==
  /\ pc = "idle" /\ ~loop.inFrame
  /\ loop.reads < MaxLoopReads
  /\ IF loop.running
     THEN UNCHANGED <<loop, clock>>
     ELSE \E d \in LoopGaps :
            /\ clock' = clock + d
            /\ loop' = Requested([loop EXCEPT !.running = TRUE, !.lastMs = clock + d,
                                              !.reads = @ + 1, !.starts = @ + 1])
  /\ UNCHANGED <<app, width, height, params, gravityOn, heatingOn, particles, cells,
                 lastThermoMs, pc, query, visited, forceLog, frame, coll>>

\* stop() called by the pause button or by destroy(), imfs.js:1253-1257,1351,1914
LoopStop ==
  /\ pc = "idle" /\ ~loop.inFrame
  /\ loop' = Halted(loop)
  /\ UNCHANGED <<app, width, height, params, gravityOn, heatingOn, particles, cells,
                 lastThermoMs, clock, pc, query, visited, forceLog, frame, coll>>

\* the visibilitychange handler, imfs.js:171-173: stop() when the document is
\* hidden, nothing when it is shown again
LoopVisibility ==
  /\ pc = "idle" /\ ~loop.inFrame
  /\ \E hidden \in BOOLEAN : loop' = IF hidden THEN Halted(loop) ELSE loop
  /\ UNCHANGED <<app, width, height, params, gravityOn, heatingOn, particles, cells,
                 lastThermoMs, clock, pc, query, visited, forceLog, frame, coll>>

\* a pending frame callback loop(now) runs, imfs.js:1221-1225: it returns at
\* once when the loop is not running, else it computes dt and calls step(dt),
\* whose first part (imfs.js:370-386) fixes the number of substeps
LoopFrame ==
  /\ pc = "idle" /\ ~loop.inFrame
  /\ loop.reads < MaxLoopReads
  /\ \E id \in loop.pending, d \in LoopGaps, skew \in FrameSkews :
       LET now == clock + d - skew
           dt == LoopDt(now, loop.lastMs)
       IN /\ clock' = clock + d
          /\ IF loop.running
             THEN /\ loop' = [loop EXCEPT !.pending = @ \ {id}, !.lastMs = now,
                                          !.inFrame = TRUE, !.reads = @ + 1]
                  /\ frame' = [frame EXCEPT !.num = dt, !.den = 1000,
                                            !.substeps = Substeps(dt, 1000),
                                            !.s = 0, !.it = 0]
                  /\ pc' = "forces"
             ELSE /\ loop' = [loop EXCEPT !.pending = @ \ {id}]
                  /\ UNCHANGED <<frame, pc>>
  /\ UNCHANGED <<app, width, height, params, gravityOn, heatingOn, particles, cells,
                 lastThermoMs, query, visited, forceLog, coll>>

\* step(dt) has returned: the callback draws and requests the next frame,
\* imfs.js:1226-1244
LoopRequest ==
  /\ pc = "idle" /\ loop.inFrame
  /\ loop' = Requested([loop EXCEPT !.inFrame = FALSE])
  /\ UNCHANGED <<app, width, height, params, gravityOn, heatingOn, particles, cells,
                 lastThermoMs, clock, pc, query, visited, forceLog, frame, coll>>

----------------------------------------------------------------------------
(* Specification SpecForce: force passes (computeForces) over pairs of      *)
(* particles at every displacement around the cutoff radii                  *)

ForceOffsets ==
  {<<dx * Unit, dy * Unit>> :
     dx \in {-26, -25, -22, -17, -9, 0, 9, 12, 17, 18, 21, 22, 23, 25, 26},
     dy \in {-8, 0, 3}}
ForceAnchors == {<<30 * Unit, 30 * Unit>>, <<33 * Unit, 10 * Unit>>}
ForceVels == {<<0, 0>>, <<10 * Unit, -4 * Unit>>}
ForceParams == {HoneyParams, DmsoParams, HexaneParams}

InitForce ==
  /\ width = 60 * Unit
  /\ height = 60 * Unit
  /\ \E a \in ForceAnchors, d \in ForceOffsets, v \in ForceVels,
        sa \in {"liquid", "gas"}, sb \in {"liquid", "gas"} :
       /\ InDomain(a[1] + d[1], a[2] + d[2])
       /\ particles =
            <<[makeParticle(a[1], a[2], v) EXCEPT !.state = sa],
              [makeParticle(a[1] + d[1], a[2] + d[2], <<-v[1], v[2]>>)
                 EXCEPT !.state = sb]>>
  /\ params \in ForceParams
  /\ cells = <<>>
  /\ gravityOn = FALSE
  /\ heatingOn = FALSE
  /\ lastThermoMs = 0
  /\ clock = StartClock
  /\ pc = "idle"
  /\ query = <<0, 0, 0>>
  /\ visited = <<>>
  /\ forceLog = <<>>
  /\ frame = <<>>
  /\ coll = <<>>
  /\ loop = Stopped
  /\ app = NoApp

\* computeForces(dt) called on its own, part by part
ForcePassPairs == pc \in {"idle", "forced"} /\ clock < MaxClock /\ ForcePairs("drag")
ForcePassDrag == pc = "drag" /\ ForceDrag("thermostat")
ForcePassThermostat ==
  pc = "thermostat" /\ clock < MaxClock /\ ForceThermostat(ClockSteps, "forced")

NextForce == ForcePassPairs \/ ForcePassDrag \/ ForcePassThermostat

SpecForce == InitForce /\ [][NextForce]_vars

Neg(v) == <<-v[1], -v[2]>>

WithinForceRadius(i, j) ==
  Dist2(particles[i].pos, particles[j].pos) <= ForceRMax * ForceRMax

\* C2: for every pair of particles A, B within the force radius of each other the
\* force the force pass adds to A because of B is the exact negation of the force
\* it adds to B because of A, and so is each of the terms ljForce, hbForce and
\* dipoleForce.
C2_PairForcesAntisymmetric ==
  pc \in {"drag", "thermostat", "forced"} =>
    \A i \in 1..Len(particles), j \in 1..Len(particles) :
      (i # j /\ WithinForceRadius(i, j)) =>
        /\ j \in DOMAIN forceLog[i]
        /\ i \in DOMAIN forceLog[j]
        /\ forceLog[i][j].f = Neg(forceLog[j][i].f)
        /\ forceLog[i][j].lj = Neg(forceLog[j][i].lj)
        /\ forceLog[i][j].hb = Neg(forceLog[j][i].hb)
        /\ forceLog[i][j].dp = Neg(forceLog[j][i].dp)

\* a force pass over a liquid and a gas particle within the force radius that
\* exert a non-zero force on each other
C2_Witness ==
  /\ pc = "forced"
  /\ Len(particles) = 2
  /\ particles[1].state = "gas" /\ particles[2].state = "liquid"
  /\ WithinForceRadius(1, 2)
  /\ 2 \in DOMAIN forceLog[1]
  /\ forceLog[1][2].f # <<0, 0>>

\* C8: each force term is exactly zero beyond its cutoff radius (2.5 sigma for
\* ljForce, 1.8 sigma for hbForce, 2.2 sigma for dipoleForce), and hbForce and
\* dipoleForce are zero at every distance when their strength is <= 0.
C8_ZeroBeyondCutoff ==
  pc \in {"drag", "thermostat", "forced"} =>
    \A i \in 1..Len(particles) : \A j \in DOMAIN forceLog[i] :
      LET d2 == Dist2(particles[i].pos, particles[j].pos)
          cLJ == (5 * params.sigma) \div 2
          cHB == (18 * params.sigma) \div 10
          cDP == (22 * params.sigma) \div 10
      IN /\ d2 > cLJ * cLJ => forceLog[i][j].lj = <<0, 0>>
         /\ d2 > cHB * cHB => forceLog[i][j].hb = <<0, 0>>
         /\ d2 > cDP * cDP => forceLog[i][j].dp = <<0, 0>>
         /\ params.hbStrength <= 0 => forceLog[i][j].hb = <<0, 0>>
         /\ params.dipole <= 0 => forceLog[i][j].dp = <<0, 0>>

\* a force pass that evaluated the terms for a pair just beyond 2.5 sigma, with
\* the hydrogen-bond term switched on
C8_Witness ==
  /\ pc = "forced"
  /\ params.hbStrength > 0
  /\ 2 \in DOMAIN forceLog[1]
  /\ Dist2(particles[1].pos, particles[2].pos) > 25 * Unit * 25 * Unit
  /\ Dist2(particles[1].pos, particles[2].pos) < 27 * Unit * 27 * Unit

\* the component of force f along the displacement rVec, times |rVec|
AlongDisplacement(f, rVec) == f[1] * rVec[1] + f[2] * rVec[2]

\* C18: the hydrogen-bond term and the dipole term are purely attractive: for
\* every displacement rVec = B - A inside the cutoff of the term and every
\* positive strength the force on A has a positive component along rVec (it
\* points from A towards B).
C18_HbAndDipoleAttract ==
  pc \in {"drag", "thermostat", "forced"} =>
    \A i \in 1..Len(particles) : \A j \in DOMAIN forceLog[i] :
      LET rVec == vSub(particles[j].pos, particles[i].pos)
          d2 == Dist2(particles[i].pos, particles[j].pos)
          cHB == (18 * params.sigma) \div 10
          cDP == (22 * params.sigma) \div 10
      IN /\ (params.hbStrength > 0 /\ d2 > 0 /\ d2 < cHB * cHB)
              => AlongDisplacement(forceLog[i][j].hb, rVec) > 0
         /\ (params.dipole > 0 /\ d2 > 0 /\ d2 < cDP * cDP)
              => AlongDisplacement(forceLog[i][j].dp, rVec) > 0

\* inside its cutoff the hydrogen-bond term pushes A away from B
HbRepels ==
  /\ pc = "forced"
  /\ params = HoneyParams
  /\ particles[1].pos = <<30 * Unit, 30 * Unit>>
  /\ particles[2].pos = <<39 * Unit, 30 * Unit>>
  /\ forceLog[1][2].hb = <<-(9 * AUnit) \div 10, 0>>

\* inside its cutoff the dipole term pushes A away from B
DipoleRepels ==
  /\ pc = "forced"
  /\ params = DmsoParams
  /\ particles[1].pos = <<30 * Unit, 30 * Unit>>
  /\ particles[2].pos = <<39 * Unit, 30 * Unit>>
  /\ forceLog[1][2].dp[1] < 0
  /\ forceLog[1][2].dp[2] = 0

\* the squared magnitude of a force f, in 1/Unit
Magnitude2(f) == (f[1] \div Unit) * (f[1] \div Unit) + (f[2] \div Unit) * (f[2] \div Unit)

\* C19: for two particles at exactly zero separation the Lennard-Jones force
\* is a non-zero force of magnitude 60, the clamp bound; at every separation
\* its magnitude is at most 60.
C19_LjClampedNonZeroAtZero ==
  pc \in {"drag", "thermostat", "forced"} =>
    \A i \in 1..Len(particles) : \A j \in DOMAIN forceLog[i] :
      /\ Magnitude2(forceLog[i][j].lj) <= (60 * Unit) * (60 * Unit)
      /\ particles[i].pos = particles[j].pos
           => /\ forceLog[i][j].lj # <<0, 0>>
              /\ Magnitude2(forceLog[i][j].lj) = (60 * Unit) * (60 * Unit)

\* the Lennard-Jones force of two particles at the same point is the zero
\* vector
LjZeroAtZero ==
  /\ pc = "forced"
  /\ particles[1].pos = particles[2].pos
  /\ 2 \in DOMAIN forceLog[1]
  /\ forceLog[1][2].lj = <<0, 0>>
  /\ forceLog[1][2].f = <<0, 0>>

\* the Lennard-Jones force is never stronger than the clamp bound
LjWithinClamp ==
  pc \in {"drag", "thermostat", "forced"} =>
    \A i \in 1..Len(particles) : \A j \in DOMAIN forceLog[i] :
      Magnitude2(forceLog[i][j].lj) <= (60 * Unit) * (60 * Unit)

----------------------------------------------------------------------------
(* Specification SpecConfig: force passes with the viscosity slider moved    *)
(* between them                                                              *)

\* the values of the viscosity slider in the model (min 0, max 3)
ViscositySamples == {0, 2 * Unit}

\* the input handler of the viscosity slider between two force passes,
\* imfs.js:1903-1907; kind is currentKind, the scenario chosen last.  The
\* record of the pass before it is dropped.
SetViscosity ==
  /\ pc \in {"idle", "forced"}
  /\ \E v \in ViscositySamples, kind \in {"honey", "dmso", "hexane"} :
       params' = applyIMFCoeffsFor([params EXCEPT !.viscosity = v], kind)
  /\ forceLog' = <<>>
  /\ pc' = "idle"
  /\ UNCHANGED <<app, width, height, gravityOn, heatingOn, loop, particles, cells,
                 lastThermoMs, clock, query, visited, frame, coll>>

\* two liquid particles at rest inside the cutoff of every term, inside that
\* of the Lennard-Jones term only, or beyond every cutoff
ConfigOffsets == {9 * Unit, 12 * Unit, 23 * Unit, 26 * Unit}

InitConfig ==
  /\ width = 60 * Unit
  /\ height = 60 * Unit
  /\ \E d \in ConfigOffsets :
       particles = <<makeParticle(30 * Unit, 30 * Unit, <<0, 0>>),
                     makeParticle(30 * Unit + d, 30 * Unit, <<0, 0>>)>>
  /\ params \in ForceParams
  /\ cells = <<>>
  /\ gravityOn = FALSE
  /\ heatingOn = FALSE
  /\ lastThermoMs = 0
  /\ clock = StartClock
  /\ pc = "idle"
  /\ query = <<0, 0, 0>>
  /\ visited = <<>>
  /\ forceLog = <<>>
  /\ frame = <<>>
  /\ coll = <<>>
  /\ loop = Stopped
  /\ app = NoApp

NextConfig == SetViscosity \/ ForcePassPairs \/ ForcePassDrag \/ ForcePassThermostat

SpecConfig == InitConfig /\ [][NextConfig]_vars

\* the force pass has run with the parameters as they are now
ForcedWithParams == pc \in {"drag", "thermostat"}

\* C17: a force coefficient set to zero (the weights cohLJ, cohHB, cohDP, the
\* strengths hbStrength and dipole, viscosity as the strength of the pair
\* potential) disables its term: the next force pass adds zero force for that
\* term to every particle.
C17_ZeroCoefficientDisablesTerm ==
  ForcedWithParams =>
    \A i \in 1..Len(particles) : \A j \in DOMAIN forceLog[i] :
      /\ (params.cohLJ = 0 \/ params.viscosity = 0) => forceLog[i][j].fLJ = <<0, 0>>
      /\ (params.cohHB = 0 \/ params.hbStrength = 0) => forceLog[i][j].fHB = <<0, 0>>
      /\ (params.cohDP = 0 \/ params.dipole = 0) => forceLog[i][j].fDP = <<0, 0>>

\* the viscosity slider was moved to 0 and the next force pass still added a
\* Lennard-Jones force
ViscosityZeroStillForces ==
  /\ ForcedWithParams
  /\ params.viscosity = 0
  /\ params.cohLJ > 0
  /\ \E i \in 1..Len(particles) : \E j \in DOMAIN forceLog[i] :
       forceLog[i][j].fLJ # <<0, 0>>

----------------------------------------------------------------------------
(* Specification SpecCollide: resolveCollisions() called again and again on *)
(* two or three particles that touch, overlap or coincide, at rest or in    *)
(* motion, in mid-air or on the floor                                       *)

CollideRadii == {3 * Unit, 5 * Unit}
CollideOffsets ==
  {<<0, 0>>, <<4 * Unit, 0>>, <<0, -4 * Unit>>, <<0, 4 * Unit>>,
   <<3 * Unit, -4 * Unit>>, <<9 * Unit, 0>>, <<-2 * Unit, 3 * Unit>>}
CollideThirds == {<<-4 * Unit, 0>>, <<2 * Unit, -2 * Unit>>}
CollideVelsA == {<<0, 0>>, <<5 * Unit, 0>>, <<3 * Unit, -2 * Unit>>}
CollideVelsB == {<<0, 0>>, <<-5 * Unit, 0>>, <<-4 * Unit, 6 * Unit>>}

\* a particle of radius r
Ball(x, y, v, r) == [makeParticle(x, y, v) EXCEPT !.radius = r]

InitCollide ==
  /\ width = 60 * Unit
  /\ height = 60 * Unit
  /\ \E r \in CollideRadii, d \in CollideOffsets, va \in CollideVelsA,
        vb \in CollideVelsB, n \in 2..3, t \in CollideThirds :
       \E ay \in {30 * Unit, height - r, height - r - 4 * Unit} :
         LET a == Ball(30 * Unit, ay, va, r)
             b == Ball(30 * Unit + d[1], ay + d[2], vb, r)
             c == Ball(30 * Unit + t[1], ay + t[2], <<0, 0>>, r)
         IN /\ b.pos[2] <= height - r
            /\ n = 2 => t = <<-4 * Unit, 0>>
            /\ particles = IF n = 2 THEN <<a, b>> ELSE <<a, b, c>>
  /\ params = HoneyParams
  /\ cells = <<>>
  /\ gravityOn = FALSE
  /\ heatingOn = FALSE
  /\ lastThermoMs = 0
  /\ clock = StartClock
  /\ pc = "idle"
  /\ query = <<0, 0, 0>>
  /\ visited = <<>>
  /\ forceLog = <<>>
  /\ frame = [calls |-> 0]
  /\ coll = <<>>
  /\ loop = Stopped
  /\ app = NoApp

CollideCall == pc \in {"idle", "collided"} /\ frame.calls < MaxCalls /\ CollideBegin

CollideReturn ==
  /\ CollideDone
  /\ pc' = "collided"
  /\ frame' = [frame EXCEPT !.calls = @ + 1]
  /\ UNCHANGED <<config, particles, cells, lastThermoMs, clock, query, visited,
                 forceLog, coll>>

NextCollide ==
  \/ CollideCall
  \/ PairSkip
  \/ PairTest
  \/ PairImpulse
  \/ PairFriction
  \/ PairConduct
  \/ PairNextParticle
  \/ CollideReturn

SpecCollide == InitCollide /\ [][NextCollide]_vars

Separation(i, j) ==
  Hypot(particles[j].pos[1] - particles[i].pos[1],
        particles[j].pos[2] - particles[i].pos[2])

TwoAtRest ==
  /\ Len(particles) = 2
  /\ particles[1].radius = particles[2].radius
  /\ particles[1].vel = <<0, 0>>
  /\ particles[2].vel = <<0, 0>>

\* C4: for two stationary particles of equal radius that overlapped at first,
\* coincident centers included, the distance of the centers after N >= 1 calls of
\* resolveCollisions() is at least the sum of the radii, to within the tolerance.
C4_SeparatedAfterCalls ==
  (pc = "collided" /\ TwoAtRest) =>
    Separation(1, 2) >= particles[1].radius + particles[2].radius - SepTol

\* C5: when the pair under correction approaches along the contact normal
\* (vn < 0) the normal impulse changes the two velocities by opposite vectors,
\* so that the total momentum of the equal masses is unchanged; when vn >= 0 no
\* velocity changes and neither the friction nor the conduction step runs.
C5_NormalImpulseOpposite ==
  [][pc = "impulse" =>
       LET a == coll.i
           b == coll.nb[coll.k]
           vn == NormalSpeed(particles[a], particles[b], coll.n)
       IN /\ particles[a].mass = particles[b].mass
          /\ vn < 0 =>
               /\ vSub(particles'[a].vel, particles[a].vel)
                    = Neg(vSub(particles'[b].vel, particles[b].vel))
               /\ vAdd(particles'[a].vel, particles'[b].vel)
                    = vAdd(particles[a].vel, particles[b].vel)
               /\ \A q \in 1..Len(particles) :
                    q \notin {a, b} => particles'[q].vel = particles[q].vel
          /\ vn >= 0 =>
               /\ \A q \in 1..Len(particles) : particles'[q].vel = particles[q].vel
               /\ pc' = "pair"]_vars

\* a normal impulse was just applied to a pair that approached head-on
C5_Witness ==
  /\ pc = "friction"
  /\ coll.j > 0
  /\ particles[coll.i].vel # particles[coll.nb[coll.k]].vel

Moved(i) ==
  Hypot(particles'[i].pos[1] - particles[i].pos[1],
        particles'[i].pos[2] - particles[i].pos[2])

Near(x, y) == Abs(x - y) <= SepTol

\* C6: of two overlapping particles of equal mass with no relative velocity,
\* neither grounded, a call moves each by half the overlap depth away from the
\* other and changes no velocity; when exactly one is grounded and would be
\* pushed into the floor the other moves by the whole overlap and the grounded
\* one not at all.
C6_HalfOverlapEach ==
  [][(/\ Len(particles) = 2
      /\ particles[1].mass = particles[2].mass
      /\ particles[1].vel = particles[2].vel
      /\ pc \in {"pair", "impulse"}) =>
       /\ particles'[1].vel = particles[1].vel
       /\ particles'[2].vel = particles[2].vel
       /\ (/\ pc = "pair" /\ coll.i = 1 /\ coll.k <= Len(coll.nb)
           /\ coll.nb[coll.k] = 2
           /\ Separation(1, 2) < particles[1].radius + particles[2].radius) =>
            LET overlap == particles[1].radius + particles[2].radius - Separation(1, 2)
                g1 == Grounded(particles[1])
                g2 == Grounded(particles[2])
                ny == particles[2].pos[2] - particles[1].pos[2]
            IN /\ (~g1 /\ ~g2) =>
                    /\ Near(Moved(1), overlap \div 2)
                    /\ Near(Moved(2), overlap \div 2)
                    /\ Near(particles'[2].pos[1] - particles'[1].pos[1]
                              - (particles[2].pos[1] - particles[1].pos[1]),
                            Along(overlap, Normal(particles[2].pos[1] - particles[1].pos[1], ny)[1]))
               /\ (g1 /\ ~g2 /\ ny < 0) =>
                    Moved(1) = 0 /\ Near(Moved(2), overlap)
               /\ (~g1 /\ g2 /\ ny > 0) =>
                    Moved(2) = 0 /\ Near(Moved(1), overlap)]_vars

\* C7: within one call of resolveCollisions() no unordered pair of particles has
\* its overlap test (and with it its position correction and impulse) run more
\* than once, in whatever order the grid yields the neighbors and although the
\* positions change during the call.
C7_PairTestedOnce ==
  pc \in {"pair", "impulse", "friction", "conduct", "collided"} =>
    \A x \in 1..Len(coll.tested), y \in 1..Len(coll.tested) :
      x # y => {coll.tested[x][1], coll.tested[x][2]}
                 # {coll.tested[y][1], coll.tested[y][2]}

\* a call over three particles is done that tested all three pairs and moved
\* the first particle
C7_Witness ==
  /\ pc = "collided"
  /\ Len(particles) = 3
  /\ Len(coll.tested) = 3
  /\ particles[1].pos # <<coll.ax, coll.ay>>

----------------------------------------------------------------------------
(* Specification SpecStep: step(dt) called again and again, for a second of *)
(* simulated time on particles without thermal noise (kT = 0, heating off)  *)
(* and for MaxNoisySteps calls on a particle with random kicks or heating   *)

\* the advance of performance.now() from one substep to the next: none (calls
\* in a tight loop) or that of a 60 Hz frame
StepTicks == {0, 17}

QuietStarts ==
  {<<makeParticle(x * Unit, 30 * Unit, <<10 * Unit, 0>>)>> : x \in {3, 20, 45, 52}}
  \cup {<<makeParticle(a[1] * Unit, a[2] * Unit, <<0, 0>>),
          makeParticle(b[1] * Unit, b[2] * Unit, <<0, 0>>)>> :
          a \in {<<1, 30>>, <<10, 10>>}, b \in {<<50, 50>>, <<59, 58>>}}
  \cup {<<makeParticle(30 * Unit, 30 * Unit, <<3 * Unit, -2 * Unit>>),
          makeParticle(34 * Unit, 30 * Unit, <<-4 * Unit, 6 * Unit>>)>>}
  \cup {<<makeParticle((49 * Unit) \div 2, 30 * Unit, <<0, 0>>),
          makeParticle(28 * Unit, 30 * Unit, <<0, 0>>)>>}

NoisyStarts ==
  {<<[makeParticle(30 * Unit, y * Unit, <<0, 0>>) EXCEPT !.thermalEnergy = te]>> :
     y \in {30, 57}, te \in {0, TUnit \div 2}}

\* a particle that has fallen half the height of the container
FastStarts ==
  {<<makeParticle(30 * Unit, 10 * Unit, <<0, 300 * Unit>>)>>}

\* the locals of step(dt) for dt = num / den, with the particles the run began
\* with and the number of calls that are followed
Frame(num, den, tick, limit) ==
  [steps |-> 0, limit |-> limit, num |-> num, den |-> den, tick |-> tick,
   substeps |-> 1, s |-> 0, it |-> 0, origin |-> particles]

InitStep ==
  /\ width = 60 * Unit
  /\ height = 60 * Unit
  /\ \/ /\ particles \in QuietStarts
        /\ params = HexaneParams
        /\ gravityOn \in BOOLEAN
        /\ heatingOn = FALSE
        /\ \E tick \in StepTicks : frame = Frame(1, StepsPerSecond, tick, StepsPerSecond)
     \/ /\ particles \in NoisyStarts
        /\ params \in {HoneyParams, HexaneParams}
        /\ gravityOn = FALSE
        /\ heatingOn \in BOOLEAN
        /\ \E tick \in StepTicks, dt \in {<<0, 1>>, <<1, StepsPerSecond>>} :
             frame = Frame(dt[1], dt[2], tick, MaxNoisySteps)
     \/ /\ particles \in FastStarts
        /\ params = HexaneParams
        /\ gravityOn \in BOOLEAN
        /\ heatingOn = FALSE
        /\ frame = Frame(1, StepsPerSecond, 0, MaxNoisySteps)
     \/ /\ particles = <<>>
        /\ params \in {HoneyParams, HexaneParams}
        /\ gravityOn \in BOOLEAN
        /\ heatingOn \in BOOLEAN
        /\ \E tick \in StepTicks, dt \in {<<0, 1>>, <<1, StepsPerSecond>>} :
             frame = Frame(dt[1], dt[2], tick, StepsPerSecond)
  /\ cells = <<>>
  /\ lastThermoMs = 0
  /\ clock = StartClock
  /\ pc = "idle"
  /\ query = <<0, 0, 0>>
  /\ visited = <<>>
  /\ forceLog = <<>>
  /\ coll = <<>>
  /\ loop = Stopped
  /\ app = NoApp

NextStep ==
  \/ StepBegin
  \/ StepForcePairs
  \/ StepForceDrag
  \/ StepForceThermostat
  \/ StepExternal
  \/ StepIntegrate
  \/ StepCollide
  \/ PairSkip
  \/ PairTest
  \/ PairImpulse
  \/ PairFriction
  \/ PairConduct
  \/ PairNextParticle
  \/ StepRewall
  \/ StepClassify
  \/ StepNextSubstep

SpecStep == InitStep /\ [][NextStep]_vars

\* two particles at rest, farther apart than every cutoff radius, with kT = 0,
\* gravity off, heating off and no thermal load
StillPair ==
  /\ Len(particles) = 2
  /\ params.kT = 0 /\ ~gravityOn /\ ~heatingOn
  /\ \A i \in 1..2 : /\ particles[i].vel = <<0, 0>>
                     /\ particles[i].thermalEnergy = 0
                     /\ InDomain(particles[i].pos[1], particles[i].pos[2])
  /\ 2 * Separation(1, 2) > 5 * params.sigma
  /\ Separation(1, 2) > ForceRMax

\* every particle is at least its radius away from every wall
ClearOfWalls ==
  \A i \in 1..Len(particles) :
    /\ particles[i].pos[1] >= particles[i].radius
    /\ particles[i].pos[1] <= width - particles[i].radius
    /\ particles[i].pos[2] >= particles[i].radius
    /\ particles[i].pos[2] <= height - particles[i].radius

StaysPut ==
  \A i \in 1..Len(particles) :
    /\ particles'[i].pos = particles[i].pos
    /\ particles'[i].vel = particles[i].vel
    /\ particles'[i].thermalEnergy = particles[i].thermalEnergy

\* C9: with kT = 0, gravity off, heating off and thermal load 0, two particles at
\* rest inside the domain and farther apart than every cutoff radius keep their
\* positions and their zero velocity through every part of every step, the
\* periodic thermostat rescale included.
C9_StillPairNeverMoves == [][StillPair => StaysPut]_vars

\* C9 as amended: the same for two such particles that are at least one radius
\* away from every wall.
C9_StillPairClearOfWalls == [][(StillPair /\ ClearOfWalls) => StaysPut]_vars

\* two such particles are where they began after steps in which the thermostat
\* rescale has fired
C9_Witness ==
  /\ StillPair /\ ClearOfWalls
  /\ pc = "idle"
  /\ frame.steps >= 2
  /\ lastThermoMs >= StartClock + 500
  /\ \A i \in 1..2 : particles[i].pos = frame.origin[i].pos

\* a single particle without thermal load, with kT = 0, all cohesion
\* coefficients 0, no gravity and no heating, that began with velocity (10, 0)
\* and has been stepped for one second at dt = 1 / StepsPerSecond
FlownOneSecond ==
  /\ Len(particles) = 1
  /\ params.kT = 0 /\ ~gravityOn /\ ~heatingOn
  /\ params.cohLJ = 0 /\ params.cohHB = 0 /\ params.cohDP = 0
  /\ frame.origin[1].vel = <<10 * Unit, 0>>
  /\ frame.origin[1].thermalEnergy = 0
  /\ frame.num = 1 /\ frame.den = StepsPerSecond
  /\ pc = "idle"
  /\ frame.steps = StepsPerSecond

\* the integration error allowed to a flight of one second
FlightTol == Unit \div 2

C12_ZeroDtChangesNothing ==
  [][(pc # "idle" /\ frame.num = 0) =>
       \A i \in 1..Len(particles) :
         /\ particles'[i].pos = particles[i].pos
         /\ particles'[i].vel = particles[i].vel]_vars

\* C13: with an empty particle list every part of step(dt) leaves the list
\* empty, for every dt and every gravity and heating setting, and the step
\* runs to its end: a collision pass over no particles is over at once.
C13_EmptyStepIsNoOp ==
  /\ [](particles = <<>> /\ pc = "pair" => CollideDone)
  /\ [][particles = <<>> => particles' = <<>>]_vars

\* a step on the empty list has returned with gravity and heating on, after
\* the thermostat branch was entered
C13_Witness ==
  /\ particles = <<>>
  /\ gravityOn /\ heatingOn
  /\ pc = "idle"
  /\ frame.steps >= 2
  /\ frame.num > 0
  /\ lastThermoMs >= StartClock + 500

\* the number of times particle i is stored in cell idx
Stored(i, idx) == Cardinality({k \in 1..Len(cells[idx]) : cells[idx][k] = i})

\* every particle is stored exactly once in the grid
OneCellEach ==
  \A i \in 1..Len(particles) :
    \E idx \in DOMAIN cells :
      /\ Stored(i, idx) = 1
      /\ \A other \in DOMAIN cells \ {idx} : Stored(i, other) = 0

\* every particle is stored exactly once, in the cell of its current position
GridCurrent ==
  \A i \in 1..Len(particles) :
    \A idx \in DOMAIN cells :
      Stored(i, idx) = IF idx = cellIndex(particles[i].pos[1], particles[i].pos[2])
                       THEN 1 ELSE 0

\* the queries of the force pass have just been issued
ForceQueried == pc = "drag"

\* the query of a collision pass for particle coll.i has just been issued
CollideQueried == pc = "pair" /\ coll.k = 1

\* C16 (as claimed): at every neighbor query of a step, in the force pass and
\* in every collision pass, each particle is stored in exactly one cell, the
\* cell of its current position.
C16_GridCurrentAtEveryQuery ==
  (ForceQueried \/ CollideQueried) => GridCurrent

\* C16 (amended): at the queries of the force pass and at the first query of
\* every collision pass each particle is stored in exactly one cell, the cell
\* of its current position; the grid changes only when a pass begins, so at
\* the later queries of a collision pass each particle is still stored in
\* exactly one cell, that of its position when the pass began.
C16_GridCurrentWhenPassBegins ==
  /\ []((ForceQueried \/ (CollideQueried /\ coll.i = 1)) => GridCurrent)
  /\ [](pc = "pair" => OneCellEach)
  /\ [][cells' # cells => pc \in {"forces", "collide"}]_vars

\* the second query of a collision pass is issued after the position
\* correction has moved the first particle out of the cell it is stored in
C16_Witness ==
  /\ CollideQueried
  /\ coll.i = 2
  /\ Stored(1, cellIndex(particles[1].pos[1], particles[1].pos[2])) = 0
  /\ OneCellEach

\* the phase of the substep that a position of step(dt) belongs to: 1 the index
\* rebuild and the pair forces, 2 drag and kick, 3 the thermostat that ends
\* computeForces, 4 the external accelerations, 5 integration and walls, 6 the
\* collision passes, 7 the state update, 8 the end of the substep
PhaseOf(at) ==
  CASE at = "forces" -> 1
    [] at = "drag" -> 2
    [] at = "thermostat" -> 3
    [] at = "external" -> 4
    [] at = "integrate" -> 5
    [] at \in {"collide", "pair", "impulse", "friction", "conduct"} -> 6
    [] at = "classify" -> 7
    [] at = "substep" -> 8
    [] OTHER -> 0

\* particle i is strictly inside the walls and below the vibration threshold
InsideAndCool(ps, i) ==
  /\ ps[i].pos[1] > ps[i].radius /\ ps[i].pos[1] < width - ps[i].radius
  /\ ps[i].pos[2] > ps[i].radius /\ ps[i].pos[2] < height - ps[i].radius
  /\ 10 * ps[i].thermalEnergy <= TUnit

\* C25: within every substep the phases run in this order: the index is rebuilt,
\* pair forces, then drag and kick are accumulated, the external accelerations
\* are applied, the velocity and then (with the new velocity) the position are
\* integrated and the walls handled, the 5 collision passes run, and the state
\* update runs last.
C25_PhasesInOrder ==
  /\ [][(PhaseOf(pc) \in 1..7) =>
          PhaseOf(pc') \in {PhaseOf(pc), PhaseOf(pc) + 1}]_vars
  /\ [][(pc = "forces" /\ pc' # pc) => (cells' = Rebuild /\ GridCurrent')]_vars
  /\ [][(pc = "integrate" /\ pc' # pc) =>
          \A i \in 1..Len(particles) :
            InsideAndCool(particles', i) =>
              /\ particles'[i].pos[1] = particles[i].pos[1] + DtStep(particles'[i].vel[1])
              /\ particles'[i].pos[2] = particles[i].pos[2] + DtStep(particles'[i].vel[2])]_vars
  /\ [][(PhaseOf(pc) = 6 /\ PhaseOf(pc') = 7) => (frame.it = 4 /\ frame'.it = 5)]_vars
  /\ [][(PhaseOf(pc) = 6 /\ pc' = "collide") => frame'.it < 5]_vars
  /\ [][(PhaseOf(pc) = 8 /\ pc' # pc) => pc' \in {"forces", "idle"}]_vars

\* the second substep of a step of two accelerated particles is complete
C25_Witness ==
  /\ pc = "substep" /\ frame.it = 5 /\ frame.s = 1
  /\ Len(particles) = 2
  /\ \E i \in 1..2 : particles[i].acc # <<0, 0>> /\ InsideAndCool(particles, i)

\* step(dt) fixes its number of substeps
StepBegins == pc = "idle" /\ pc' = "forces"

\* the distance particle i moves in this step of the model
Displacement(i) ==
  Hypot(particles'[i].pos[1] - particles[i].pos[1],
        particles'[i].pos[2] - particles[i].pos[2])

\* what "about" the safe displacement allows on top of it: half a pixel
DispTol == Unit \div 2

\* step(dt) runs exactly frame.substeps substeps of dt / frame.substeps each
ExactlyNSubsteps ==
  /\ [][pc # "idle" => /\ frame'.substeps = frame.substeps
                        /\ frame'.num = frame.num /\ frame'.den = frame.den]_vars
  /\ [][(pc = "substep" /\ pc' = "forces") =>
          (frame'.s = frame.s + 1 /\ frame'.s < frame.substeps)]_vars
  /\ [][(pc = "substep" /\ pc' = "idle") => frame'.s = frame.substeps]_vars
  /\ [][StepBegins =>
          /\ frame'.s = 0
          /\ IF gravityOn THEN frame'.substeps \in 2..12 ELSE frame'.substeps = 1]_vars

\* C26: step(dt) executes exactly N substeps of dt / N each, N = 1 when
\* substepping is inactive and 2 <= N <= 12 when it is active, and in every
\* substep every particle moves at most about the safe displacement.
C26_SubstepsBoundDisplacement ==
  /\ ExactlyNSubsteps
  /\ [][(pc = "integrate" /\ pc' # pc) =>
          \A i \in 1..Len(particles) : Displacement(i) <= SafeDisp + DispTol]_vars

\* C26, amended: step(dt) executes exactly N substeps of dt / N each, N = 1 when
\* gravity is off and 2 <= N <= 12 when it is on; when gravity is on and N < 12,
\* the largest speed at the beginning of the step times dt / N is at most the safe
\* displacement.
C26_SubstepsBoundStartSpeed ==
  /\ ExactlyNSubsteps
  /\ [][(StepBegins /\ gravityOn /\ frame'.substeps < 12) =>
          MaxSpeed(particles, 1) * frame.num
            <= frame'.substeps * SafeDisp * frame.den]_vars

\* the third of three substeps of a fast particle under gravity is complete
C26_Witness ==
  /\ gravityOn /\ frame.substeps = 3 /\ frame.s = 2 /\ pc = "substep"
  /\ frame.origin \in FastStarts

\* with gravity off the fast particle has moved 5 pixels in the one substep
MovedFiveInOneSubstep ==
  /\ ~gravityOn /\ frame.substeps = 1 /\ pc = "collide" /\ frame.steps = 0
  /\ frame.origin \in FastStarts
  /\ particles[1].pos[2] - frame.origin[1].pos[2] >= 5 * Unit - DispTol

\* C22: for every interleaving of start(), stop(), visibility changes and
\* frame callbacks at most one frame callback is pending, start() while
\* running schedules nothing, a step runs through all its substeps before the
\* next frame is scheduled, and no step executes between stop() and the next
\* start().
C22_OneLoopAtATime ==
  /\ [](Cardinality(loop.pending) <= 1)
  /\ [](pc # "idle" => loop.running /\ loop.inFrame)
  /\ [](~loop.running => loop.pending = {} /\ ~loop.inFrame)
  /\ [][(loop.running /\ ~loop.inFrame) => loop'.pending \subseteq loop.pending]_vars
  /\ [][loop'.nextId # loop.nextId =>
          /\ pc = "idle"
          /\ loop.inFrame => frame.s = frame.substeps]_vars

\* the loop was stopped and started again and its one pending frame follows a
\* step of two substeps that has run to its end
C22_Witness ==
  /\ loop.starts >= 2
  /\ loop.running /\ ~loop.inFrame
  /\ Cardinality(loop.pending) = 1
  /\ pc = "idle"
  /\ frame.substeps = 2
  /\ frame.s = 2
  /\ frame.steps >= 1

----------------------------------------------------------------------------
(* Specification SpecHeat: step(dt) at dt = 1/60 on particles that carry a
   thermal load, with the heat toggle clicked and the particle count
   changed between calls *)

\* the click handler of the heat toggle, imfs.js:1936-1940
ToggleHeat ==
  /\ pc = "idle"
  /\ heatingOn' = ~heatingOn
  /\ UNCHANGED <<app, width, height, params, gravityOn, loop, particles, cells,
                 lastThermoMs, clock, pc, query, visited, forceLog, frame, coll>>

\* the values of the particle-count slider in the model
TargetCounts == {0, 1, 2}

\* the input handler of the particle-count slider, imfs.js:1908-1912
AdjustParticleCount ==
  /\ pc = "idle"
  /\ \E targetN \in TargetCounts :
       \E fresh \in [1..Max(0, targetN - Len(particles)) -> FreshSamples] :
         particles' = adjustParticleCount(particles, targetN, fresh)
  /\ UNCHANGED <<config, cells, lastThermoMs, clock, pc, query, visited, forceLog,
                 frame, coll>>

\* one particle: in the heating zone almost saturated or cold, in mid-domain
\* almost cold, as a cool slow gas particle, or as a warm moving liquid one;
\* or two lukewarm particles in contact
HeatStarts ==
  {<<[makeParticle(30 * Unit, 57 * Unit, <<0, 5 * Unit>>)
        EXCEPT !.thermalEnergy = te]>> : te \in {0, TUnit - 2 * Unit}}
  \cup {<<[makeParticle(30 * Unit, 30 * Unit, <<0, 0>>)
             EXCEPT !.thermalEnergy = Unit]>>}
  \cup {<<[makeParticle(30 * Unit, 30 * Unit, <<0, 0>>)
             EXCEPT !.thermalEnergy = (15 * TUnit) \div 100, !.state = "gas",
                    !.gasUntil = StartClock + 500]>>}
  \cup {<<[makeParticle(30 * Unit, 30 * Unit, <<3 * Unit, 0>>)
             EXCEPT !.thermalEnergy = TUnit \div 2]>>}
  \cup {<<[makeParticle(30 * Unit, 30 * Unit, <<3 * Unit, -2 * Unit>>)
             EXCEPT !.thermalEnergy = Unit],
          [makeParticle(34 * Unit, 30 * Unit, <<-4 * Unit, 6 * Unit>>)
             EXCEPT !.thermalEnergy = TUnit \div 20]>>}

InitHeat ==
  /\ width = 60 * Unit
  /\ height = 60 * Unit
  /\ particles \in HeatStarts
  /\ params = HexaneParams
  /\ gravityOn = FALSE
  /\ heatingOn \in BOOLEAN
  /\ frame = Frame(1, StepsPerSecond, 17, MaxHeatSteps)
  /\ cells = <<>>
  /\ lastThermoMs = 0
  /\ clock = StartClock
  /\ pc = "idle"
  /\ query = <<0, 0, 0>>
  /\ visited = <<>>
  /\ forceLog = <<>>
  /\ coll = <<>>
  /\ loop = Stopped
  /\ app = NoApp

NextHeat ==
  \/ ToggleHeat
  \/ AdjustParticleCount
  \/ StepBegin
  \/ StepForcePairs
  \/ StepForceDrag
  \/ StepForceThermostat
  \/ StepExternal
  \/ StepIntegrate
  \/ StepCollide
  \/ PairSkip
  \/ PairTest
  \/ PairImpulse
  \/ PairFriction
  \/ PairConduct
  \/ PairNextParticle
  \/ StepRewall
  \/ StepClassify
  \/ StepNextSubstep

SpecHeat == InitHeat /\ [][NextHeat]_vars

\* C14: the thermal energy of every particle is in [0, 1] in every reachable
\* state, with heating toggled on and off and through phase transitions.
C14_ThermalEnergyInUnitRange ==
  \A i \in 1..Len(particles) :
    /\ particles[i].thermalEnergy >= 0
    /\ particles[i].thermalEnergy <= TUnit

\* heating has brought a particle that was below 1 to exactly 1
C14_Witness ==
  /\ frame.steps >= 1
  /\ frame.origin[1].thermalEnergy < TUnit
  /\ particles[1].thermalEnergy = TUnit

\* dissipation has brought a particle to exactly 0
HeatFloorReached ==
  /\ frame.origin[1].thermalEnergy > 0
  /\ particles[1].thermalEnergy = 0

\* a particle has changed phase
HeatPhaseChanged ==
  /\ frame.origin[1].state # particles[1].state

\* the phase fields of the particles that are there before and after a step
\* of the program are the same
PhaseFieldsKept ==
  \A i \in 1..Min(Len(particles), Len(particles')) :
    /\ particles'[i].state = particles[i].state
    /\ particles'[i].gasUntil = particles[i].gasUntil
    /\ particles'[i].lastStateChange = particles[i].lastStateChange

\* C15: state, gasUntil and lastStateChange of a particle are changed only by
\* the state update of step: the force pass, gravity, heating, buoyancy,
\* integration, wall handling, collision resolution and adjustParticleCount
\* leave them as they are.
C15_PhaseFieldsOnlyByClassifier ==
  [][pc # "classify" => PhaseFieldsKept]_vars

\* a gas particle has come through a whole step and a change of the particle
\* count with the fields the state update gave it
C15_Witness ==
  /\ pc = "idle"
  /\ frame.steps >= 1
  /\ Len(particles) = 2
  /\ Len(frame.origin) = 1
  /\ particles[1].state = "gas"
  /\ particles[1].lastStateChange > 0
  /\ particles[1].gasUntil = particles[1].lastStateChange + 1500

----------------------------------------------------------------------------
(* Specification SpecLoop: the play and pause buttons, visibility changes   *)
(* and animation frames in every order, on two particles in contact         *)

InitLoop ==
  /\ width = 60 * Unit
  /\ height = 60 * Unit
  /\ particles = <<makeParticle(30 * Unit, 30 * Unit, <<3 * Unit, -2 * Unit>>),
                   makeParticle(34 * Unit, 30 * Unit, <<-4 * Unit, 6 * Unit>>)>>
  /\ params = HexaneParams
  /\ gravityOn \in BOOLEAN
  /\ heatingOn = FALSE
  /\ frame = Frame(0, 1000, 0, 0)
  /\ cells = <<>>
  /\ lastThermoMs = 0
  /\ clock = StartClock
  /\ pc = "idle"
  /\ query = <<0, 0, 0>>
  /\ visited = <<>>
  /\ forceLog = <<>>
  /\ coll = <<>>
  /\ loop = Stopped
  /\ app = NoApp

NextLoop ==
  \/ LoopStart
  \/ LoopStop
  \/ LoopVisibility
  \/ LoopFrame
  \/ LoopRequest
  \/ StepForcePairs
  \/ StepForceDrag
  \/ StepForceThermostat
  \/ StepExternal
  \/ StepIntegrate
  \/ StepCollide
  \/ PairSkip
  \/ PairTest
  \/ PairImpulse
  \/ PairFriction
  \/ PairConduct
  \/ PairNextParticle
  \/ StepRewall
  \/ StepClassify
  \/ StepNextSubstep

SpecLoop == InitLoop /\ [][NextLoop]_vars

\* C11: every step the run loop makes receives a dt with 0 <= dt <= 0.033 s,
\* whatever the wall-clock gap between frames, also in the first frame after
\* stop() followed by start().
C11_LoopDtClamped ==
  loop.inFrame => /\ frame.num >= 0
                  /\ 1000 * frame.num <= 33 * frame.den

\* a step is under way in a frame that came 40 ms after the loop was started
\* for the second time, with dt at its maximum
C11_Witness ==
  /\ loop.inFrame
  /\ loop.starts >= 2
  /\ clock - loop.lastMs = 0
  /\ frame.num = 33 /\ frame.den = 1000

----------------------------------------------------------------------------
(* Specification SpecClassify: the state update run again and again on one  *)
(* particle whose velocity, thermal load, neighbor count and height the     *)
(* rest of the step changes arbitrarily in between                          *)

ClassifyVels == {<<0, 0>>, <<3 * Unit, 0>>, <<15 * Unit, 0>>, <<0, -20 * Unit>>}
ClassifyThermals == {0, TUnit \div 10, (3 * TUnit) \div 10, TUnit \div 2,
                     (8 * TUnit) \div 10}
ClassifyNeighbors == {0, 3}
ClassifyYs == {5 * Unit, 30 * Unit, 57 * Unit}
ClassifyClockSteps == {75, 150}

InitClassify ==
  /\ width = 60 * Unit
  /\ height = 60 * Unit
  /\ particles = <<makeParticle(30 * Unit, 30 * Unit, <<0, 0>>)>>
  /\ params = HoneyParams
  /\ cells = <<>>
  /\ gravityOn = FALSE
  /\ heatingOn \in BOOLEAN
  /\ lastThermoMs = 0
  /\ clock = StartClock
  /\ pc = "feed"
  /\ query = <<0, 0, 0>>
  /\ visited = <<>>
  /\ forceLog = <<>>
  /\ frame = <<>>
  /\ coll = <<>>
  /\ loop = Stopped
  /\ app = NoApp

\* what the force pass, the heating block, the integrator and the collision
\* passes of a substep leave behind for the state update: any velocity, thermal
\* load, neighbor count and height (imfs.js:387-588)
Feed ==
  /\ pc = "feed"
  /\ \E v \in ClassifyVels, te \in ClassifyThermals, n \in ClassifyNeighbors,
        y \in ClassifyYs :
       particles' = [i \in 1..Len(particles) |->
                       [particles[i] EXCEPT !.vel = v, !.thermalEnergy = te,
                                            !.localNeighbors = n, !.pos[2] = y]]
  /\ pc' = "classify"
  /\ UNCHANGED <<config, cells, lastThermoMs, clock, query, visited, forceLog,
                 frame, coll>>

ClassifyPass ==
  pc = "classify" /\ clock < MaxClock /\ UpdateStates(ClassifyClockSteps, "feed")

NextClassify == Feed \/ ClassifyPass

SpecClassify == InitClassify /\ [][NextClassify]_vars

\* the state of particle 1 differs between the two states of a step
Flips == particles'[1].state # particles[1].state

\* C3 as stated: the phase of a particle flips only when at least the minimum
\* dwell time of 300 ms has elapsed since its last recorded transition.
C3_DwellAtLeast300 ==
  [][Flips => clock' - particles[1].lastStateChange >= minStateDuration]_vars

\* C3 as amended: a flip to liquid comes at least 300 ms after the last recorded
\* transition; a flip to gas comes at least 300 ms after it, or at least 150 ms
\* after it when the particle's thermalEnergy is above 0.7.
C3_DwellWithHotShortcut ==
  [][Flips =>
       LET elapsed == clock' - particles[1].lastStateChange
       IN IF particles'[1].state = "liquid" THEN elapsed >= minStateDuration
          ELSE \/ elapsed >= minStateDuration
               \/ /\ 2 * elapsed >= minStateDuration
                  /\ 10 * particles[1].thermalEnergy > 7 * TUnit]_vars

\* a particle that went liquid -> gas -> liquid and, within less than 300 ms of
\* that, gas again
C3_Witness ==
  /\ pc = "feed"
  /\ particles[1].state = "gas"
  /\ particles[1].lastStateChange > StartClock + minStateDuration
  /\ particles[1].lastStateChange < StartClock + 2 * minStateDuration

\* particle 1 is in the bottom 10% of the container, the heating zone
InHeatingZone == 10 * (particles[1].pos[2] + particles[1].radius) >= 9 * height

\* particle 1 condenses in this step
Condenses == Flips /\ particles'[1].state = "liquid"

\* C21 (as claimed): on every gas-to-liquid transition the thermal energy is
\* reduced to a positive fraction of its value, unless the particle is outside
\* the heating region: then the transition leaves it unchanged.
C21_ResetUnlessOutsideZone ==
  [][Condenses =>
       IF InHeatingZone
       THEN particles[1].thermalEnergy > 0 =>
              /\ particles'[1].thermalEnergy > 0
              /\ particles'[1].thermalEnergy < particles[1].thermalEnergy
       ELSE particles'[1].thermalEnergy = particles[1].thermalEnergy]_vars

\* C21 (amended): on every gas-to-liquid transition the thermal energy of a
\* particle above the bottom 10% of the container is halved, a positive value
\* staying positive; that of a particle in the bottom 10%, the heating zone,
\* is left unchanged, whether heating is on or off.
C21_HalvedUnlessInZone ==
  [][Condenses =>
       IF InHeatingZone
       THEN particles'[1].thermalEnergy = particles[1].thermalEnergy
       ELSE /\ particles'[1].thermalEnergy = particles[1].thermalEnergy \div 2
            /\ particles[1].thermalEnergy > 1 => particles'[1].thermalEnergy > 0]_vars

\* a particle with thermal load 0.1 has just condensed above the heating zone
\* and carries 0.05
C21_Witness ==
  /\ pc = "feed"
  /\ particles[1].state = "liquid"
  /\ particles[1].lastStateChange = clock
  /\ particles[1].lastStateChange > StartClock
  /\ ~InHeatingZone
  /\ particles[1].thermalEnergy = TUnit \div 20

\* a particle with thermal load 0.1 has just condensed in the heating zone and
\* still carries 0.1
CondensedInZone ==
  /\ pc = "feed"
  /\ particles[1].state = "liquid"
  /\ particles[1].lastStateChange = clock
  /\ particles[1].lastStateChange > StartClock
  /\ InHeatingZone
  /\ particles[1].thermalEnergy = TUnit \div 10

----------------------------------------------------------------------------
(* Specification SpecExpiry: the state update run on one particle for longer *)
(* than the 1500 ms and 2000 ms a gas particle is given (gasUntil)           *)

\* the time between two state updates that are looked at (ms)
ExpiryClockSteps == {400, 800}

ExpiryPass ==
  /\ pc = "classify"
  /\ clock < StartClock + MaxExpiryElapsed
  /\ UpdateStates(ExpiryClockSteps, "feed")

NextExpiry == Feed \/ ExpiryPass

SpecExpiry == InitClassify /\ [][NextExpiry]_vars

\* C20: a gas particle whose expiry time gasUntil has been reached and whose
\* minimum gas dwell has elapsed is liquid after the next state update,
\* whatever its kinetic energy, thermal load, height and neighbor count.
C20_ExpiredGasCondenses ==
  [][(/\ pc = "classify"
      /\ particles[1].state = "gas"
      /\ clock' >= particles[1].gasUntil
      /\ clock' - particles[1].lastStateChange >= minStateDuration)
       => particles'[1].state = "liquid"]_vars

\* a hot gas particle is still gas after a state update that ran past its
\* expiry time
ExpiredStillGas ==
  /\ pc = "feed"
  /\ particles[1].state = "gas"
  /\ particles[1].gasUntil > 0
  /\ clock >= particles[1].gasUntil + minStateDuration

----------------------------------------------------------------------------
(* Specification SpecGrid: a rebuild followed by neighbor queries *)

GridWidths == {48 * Unit, 60 * Unit}
GridHeights == {30 * Unit}
GridXs == {0, 12 * Unit, 24 * Unit, 36 * Unit, 48 * Unit, 54 * Unit, 60 * Unit}
GridYs == {3 * Unit, 15 * Unit, 27 * Unit}
GridRadii == {5 * Unit, 16 * Unit, 28 * Unit}

InitGrid ==
  /\ width \in GridWidths
  /\ height \in GridHeights
  /\ \E n \in 1..MaxParticles :
       particles \in [1..n -> {makeParticle(x, y, <<0, 0>>) :
                                 x \in {gx \in GridXs : gx <= width}, y \in GridYs}]
  /\ cells = <<>>
  /\ params = HoneyParams
  /\ gravityOn = FALSE
  /\ heatingOn = FALSE
  /\ lastThermoMs = 0
  /\ clock = 0
  /\ pc = "new"
  /\ query = <<0, 0, 0>>
  /\ visited = <<>>
  /\ forceLog = <<>>
  /\ frame = <<>>
  /\ coll = <<>>
  /\ loop = Stopped
  /\ app = NoApp

\* grid.clear() and grid.insert() of every particle
GridRebuild ==
  /\ pc = "new"
  /\ cells' = Rebuild
  /\ pc' = "built"
  /\ UNCHANGED <<config, particles, lastThermoMs, clock, query, visited,
                 forceLog, frame, coll>>

\* grid.forNeighbors(x, y, r, fn) on the rebuilt grid
GridQuery ==
  /\ pc \in {"built", "queried"}
  /\ \E x \in GridXs, y \in GridYs, r \in GridRadii :
       /\ InDomain(x, y)
       /\ query' = <<x, y, r>>
       /\ visited' = forNeighbors(cells, x, y, r)
  /\ pc' = "queried"
  /\ UNCHANGED <<config, particles, cells, lastThermoMs, clock, forceLog,
                 frame, coll>>

NextGrid == GridRebuild \/ GridQuery

SpecGrid == InitGrid /\ [][NextGrid]_vars

\* C1: after a full rebuild, forNeighbors(x, y, r, fn) calls fn on every particle
\* whose Euclidean distance to (x, y) is at most r, for every radius r > 0.
C1_NoFalseNegatives ==
  pc = "queried" =>
    \A i \in 1..Len(particles) :
      Dist2(particles[i].pos, <<query[1], query[2]>>) <= query[3] * query[3]
        => i \in SeqToSet(visited)

\* ---------------------------------------------------------------------------
\* The periodic thermostat over several calls of computeForces, imfs.js:325-367

\* wall-clock time the thermostat is followed for (ms)
MaxThermoElapsed == 1600

\* a particle with three neighbors inside the density cutoff of 2.4 sigma, each
\* of which has only that one neighbor; all move at speed v
ThermoStarts ==
  {<<[makeParticle(30 * Unit, 30 * Unit, <<v, 0>>) EXCEPT !.state = st],
     makeParticle(30 * Unit, 10 * Unit, <<v, 0>>),
     makeParticle(47 * Unit, 40 * Unit, <<0, v>>),
     makeParticle(13 * Unit, 40 * Unit, <<0 - v, 0>>)>> :
     v \in {Unit, 10 * Unit}, st \in {"liquid", "gas"}}

InitThermo ==
  /\ width = 60 * Unit
  /\ height = 60 * Unit
  /\ particles \in ThermoStarts
  /\ params \in {HoneyParams, HexaneParams}
  /\ cells = <<>>
  /\ gravityOn = FALSE
  /\ heatingOn = FALSE
  /\ lastThermoMs = 0
  /\ clock = StartClock
  /\ pc = "idle"
  /\ query = <<0, 0, 0>>
  /\ visited = <<>>
  /\ forceLog = <<>>
  /\ frame = <<>>
  /\ coll = <<>>
  /\ loop = Stopped
  /\ app = NoApp

\* computeForces(dt) called again and again, part by part
ThermoPassPairs ==
  pc \in {"idle", "forced"} /\ clock < StartClock + MaxThermoElapsed /\ ForcePairs("drag")
ThermoPassDrag == pc = "drag" /\ ForceDrag("thermostat")
ThermoPassThermostat == pc = "thermostat" /\ ForceThermostat(ClockSteps, "forced")

NextThermo == ThermoPassPairs \/ ThermoPassDrag \/ ThermoPassThermostat

SpecThermo == InitThermo /\ [][NextThermo]_vars

\* the thermostat rescales a velocity in this step
Adjusts ==
  /\ pc = "thermostat"
  /\ \E i \in 1..Len(particles) : particles'[i].vel # particles[i].vel

\* a liquid particle with at least 3 neighbors inside the density cutoff
DenseLiquid(p) == p.state = "liquid" /\ p.localNeighbors >= 3

\* C27: two consecutive adjustments of the periodic thermostat are more than
\* 500 ms of wall-clock time apart (an adjustment comes more than 500 ms after the
\* time lastThermoMs holds, which is set to the time of every adjustment and never
\* decreases), each adjustment multiplies the velocities it changes by one common
\* factor in [0.9, 1.1], and it leaves dense-liquid particles unchanged.
C27_ThermostatGentleAndSparse ==
  /\ [][Adjusts => /\ lastThermoMs # 0
                    /\ clock' - lastThermoMs > 500
                    /\ lastThermoMs' = clock']_vars
  /\ [][lastThermoMs' >= lastThermoMs /\ clock' >= clock]_vars
  /\ [](lastThermoMs <= clock)
  /\ [][Adjusts =>
          \E f \in ((9 * Unit) \div 10)..((11 * Unit) \div 10) :
            \A i \in 1..Len(particles) :
              /\ particles'[i].vel \in {particles[i].vel, vMul(particles[i].vel, f)}
              /\ DenseLiquid(particles[i]) => particles'[i] = particles[i]]_vars

\* the thermostat has slowed the three outer particles twice, to 0.9 * 0.9 of
\* their speed, and left the dense liquid particle in the middle alone
C27_Witness ==
  /\ pc = "forced"
  /\ DenseLiquid(particles[1]) /\ particles[1].vel = <<10 * Unit, 0>>
  /\ particles[2].vel = <<(81 * Unit) \div 10, 0>>
  /\ particles[3].vel = <<0, (81 * Unit) \div 10>>
  /\ lastThermoMs = clock

\* ---------------------------------------------------------------------------
\* Blackjack (src/scripts/blackjack.js) on the deck helpers of deck.js
\* (src/unnamed/part_001)

\* ranks the shoe deals in the model: an ace, a low card and a ten-valued card
Ranks == {"A", "6", "K"}

\* drawCard on an empty deck, part_001:213
NoCard == "null"

ShoeDecks == 6
DeckSize == 52
ReshoeBelow == 40
DealerStandsOn == 17
StartBankroll == 1000
DefaultBet == 25

\* rounds dealt and cards a player takes in one round that the model follows
MaxRounds == 2
MaxHits == 1

\* values typed into the bet field: the default, and one above every bankroll the
\* model reaches, which clampBet turns into the whole bankroll
BetSamples == {DefaultBet, 5000}

\* the value blackjackScore gives a card with aces counted as 1, part_001:269-279
CardValue(rank) ==
  IF rank = "A" THEN 1
  ELSE IF rank = "K" THEN 10
  ELSE IF rank = "6" THEN 6
  ELSE 0

RECURSIVE HandTotal(_)
HandTotal(hand) ==
  IF hand = <<>> THEN 0 ELSE CardValue(Head(hand)) + HandTotal(Tail(hand))

AceCount(hand) == Cardinality({i \in 1..Len(hand) : hand[i] = "A"})

\* blackjackScore(cards), part_001:265-288
blackjackScore(hand) ==
  LET total == HandTotal(hand)
      soft == AceCount(hand) > 0 /\ total + 10 <= 21
      bestTotal == IF soft THEN total + 10 ELSE total
  IN  [total |-> bestTotal,
       isSoft |-> soft,
       isBlackjack |-> Len(hand) = 2 /\ bestTotal = 21,
       isBust |-> bestTotal > 21]

\* drawCard(deck), part_001:212-215: the card popped from a shoe of n cards, r being
\* the rank on top
drawCard(n, r) == IF n = 0 THEN NoCard ELSE r

\* the length of the shoe after drawCard
Popped(n) == IF n = 0 THEN 0 ELSE n - 1

\* the table between rounds: blackjack.js:12-25, with the hands of the last round
\* still on it. The fields stage, rounds, hits and round are bookkeeping of the
\* model: where the dealer's play stands, the rounds dealt, the cards the player
\* took, and the bankroll and bet the round began with.
Table(shoe, discard, playerHand, dealerHand) ==
  [shoe |-> shoe, discard |-> discard,
   bankroll |-> StartBankroll, baseBet |-> DefaultBet, currentBet |-> DefaultBet,
   playerHand |-> playerHand, dealerHand |-> dealerHand,
   inRound |-> FALSE, playerTurn |-> FALSE, canDouble |-> FALSE,
   dealerHoleRevealed |-> FALSE,
   stage |-> "idle", rounds |-> 0, hits |-> 0, ended |-> 0,
   round |-> [before |-> StartBankroll, bet |-> DefaultBet, doubled |-> FALSE,
              reset |-> FALSE]]

\* clampBet, blackjack.js:89-95
clampBet(b) ==
  LET max == Max(1, b.bankroll)
  IN  [b EXCEPT !.currentBet = Max(1, Min(b.currentBet, max))]

\* maybeReshoe, blackjack.js:97-106
maybeReshoe(b) ==
  IF b.shoe < ReshoeBelow
  THEN [b EXCEPT !.shoe = IF b.shoe + b.discard > 0 THEN b.shoe + b.discard
                          ELSE ShoeDecks * DeckSize,
                 !.discard = 0]
  ELSE b

\* clearHandsToDiscard, blackjack.js:171-175
clearHandsToDiscard(b) ==
  [b EXCEPT !.discard = b.discard + Len(b.playerHand) + Len(b.dealerHand),
            !.playerHand = <<>>, !.dealerHand = <<>>]

\* startRound, blackjack.js:177-229; c holds the ranks on top of the shoe
startRound(b, c) ==
  LET b1 == clampBet(b)
      b2 == clearHandsToDiscard(maybeReshoe(b1))
      n == b2.shoe
      ph == <<drawCard(n, c[1]), drawCard(Popped(Popped(n)), c[3])>>
      dh == <<drawCard(Popped(n), c[2]), drawCard(Popped(Popped(Popped(n))), c[4])>>
      b3 == [b2 EXCEPT !.inRound = TRUE, !.playerTurn = FALSE, !.canDouble = FALSE,
                       !.dealerHoleRevealed = FALSE,
                       !.bankroll = b2.bankroll - b2.currentBet,
                       !.playerHand = ph, !.dealerHand = dh,
                       !.shoe = Popped(Popped(Popped(Popped(n)))),
                       !.rounds = b.rounds + 1, !.hits = 0,
                       !.round = [before |-> b2.bankroll, bet |-> b2.currentBet,
                                  doubled |-> FALSE, reset |-> FALSE]]
      pBJ == blackjackScore(ph).isBlackjack
      dBJ == blackjackScore(dh).isBlackjack
  IN  IF b1.currentBet > b1.bankroll THEN b1
      ELSE IF pBJ \/ dBJ
      THEN [b3 EXCEPT !.dealerHoleRevealed = TRUE,
                      !.bankroll = IF pBJ /\ dBJ THEN b3.bankroll + b3.currentBet
                                   ELSE IF pBJ
                                   THEN b3.bankroll + (b3.currentBet * 5) \div 2
                                   ELSE b3.bankroll,
                      !.inRound = FALSE, !.ended = b.ended + 1]
      ELSE [b3 EXCEPT !.playerTurn = TRUE, !.canDouble = TRUE]

\* a hit that leaves the double open
playerHitKeepsDouble(b, r) ==
  LET hand == Append(b.playerHand, drawCard(b.shoe, r))
      b1 == [b EXCEPT !.playerHand = hand, !.shoe = Popped(b.shoe),
                      !.hits = b.hits + 1]
  IN  IF ~b.playerTurn THEN b
      ELSE IF blackjackScore(hand).isBust
      THEN [b1 EXCEPT !.dealerHoleRevealed = TRUE, !.inRound = FALSE,
                      !.playerTurn = FALSE, !.ended = b.ended + 1]
      ELSE b1

\* playerHit, blackjack.js:231-248
playerHit(b, r) ==
  LET hand == Append(b.playerHand, drawCard(b.shoe, r))
      b1 == [b EXCEPT !.playerHand = hand, !.shoe = Popped(b.shoe),
                      !.canDouble = FALSE, !.hits = b.hits + 1]
  IN  IF ~b.playerTurn THEN b
      ELSE IF blackjackScore(hand).isBust
      THEN [b1 EXCEPT !.dealerHoleRevealed = TRUE, !.inRound = FALSE,
                      !.playerTurn = FALSE, !.ended = b.ended + 1]
      ELSE b1

\* dealerPlayAndSettle, blackjack.js:285-287: the hole card is turned over
dealerReveal(b) == [b EXCEPT !.dealerHoleRevealed = TRUE, !.stage = "dealer"]

\* playerStand, blackjack.js:250-255, up to the dealer's first draw
playerStand(b) ==
  IF ~b.playerTurn THEN b
  ELSE dealerReveal([b EXCEPT !.playerTurn = FALSE, !.canDouble = FALSE])

\* playerDouble, blackjack.js:257-282, up to the dealer's first draw
playerDouble(b, r) ==
  LET hand == Append(b.playerHand, drawCard(b.shoe, r))
      b1 == [b EXCEPT !.bankroll = b.bankroll - b.currentBet,
                      !.currentBet = b.currentBet * 2,
                      !.canDouble = FALSE,
                      !.playerHand = hand, !.shoe = Popped(b.shoe),
                      !.round = [b.round EXCEPT !.doubled = TRUE]]
  IN  IF ~b.playerTurn \/ ~b.canDouble THEN b
      ELSE IF b.bankroll < b.currentBet THEN b
      ELSE IF blackjackScore(hand).isBust
      THEN [b1 EXCEPT !.dealerHoleRevealed = TRUE, !.inRound = FALSE,
                      !.playerTurn = FALSE, !.ended = b.ended + 1]
      ELSE dealerReveal([b1 EXCEPT !.playerTurn = FALSE])

\* a dealer who also draws on a soft 17
dealerHitsSoft17(hand) ==
  \/ blackjackScore(hand).total < DealerStandsOn
  \/ blackjackScore(hand).total = DealerStandsOn /\ blackjackScore(hand).isSoft

\* the loop condition of dealerPlayAndSettle, blackjack.js:291
dealerMustDraw(hand) == blackjackScore(hand).total < DealerStandsOn

\* one turn of the loop of dealerPlayAndSettle, blackjack.js:291-295
dealerDraw(b, r) ==
  [b EXCEPT !.dealerHand = Append(b.dealerHand, drawCard(b.shoe, r)),
            !.shoe = Popped(b.shoe)]

\* a settlement that keeps the stake on a push
settleOutcomePushLoses(b) ==
  LET ps == blackjackScore(b.playerHand)
      ds == blackjackScore(b.dealerHand)
      paid == IF ds.isBust \/ ps.total > ds.total THEN b.currentBet * 2 ELSE 0
      bankroll == b.bankroll + paid
  IN  [b EXCEPT !.bankroll = bankroll, !.inRound = FALSE,
                !.currentBet = Max(1, Min(b.baseBet, bankroll)),
                !.stage = "idle", !.ended = b.ended + 1]

\* settleOutcome, blackjack.js:305-334
settleOutcome(b) ==
  LET ps == blackjackScore(b.playerHand)
      ds == blackjackScore(b.dealerHand)
      paid == IF ds.isBust \/ ps.total > ds.total THEN b.currentBet * 2
              ELSE IF ps.total < ds.total THEN 0
              ELSE b.currentBet
      bankroll == b.bankroll + paid
  IN  [b EXCEPT !.bankroll = bankroll, !.inRound = FALSE,
                !.currentBet = Max(1, Min(b.baseBet, bankroll)),
                !.stage = "idle", !.ended = b.ended + 1]

\* resetBankroll, blackjack.js:336-342
resetBankroll(b) ==
  [b EXCEPT !.bankroll = StartBankroll,
            !.currentBet = Min(b.baseBet, StartBankroll),
            !.round = [b.round EXCEPT !.reset = TRUE]]

\* the change handler of the bet field, blackjack.js:353-359
betChange(b, v) == clampBet([b EXCEPT !.currentBet = v])

\* updateControls, blackjack.js:156-169: the controls that are not disabled
DealEnabled(b) == ~(b.inRound \/ b.bankroll <= 0)
HitEnabled(b) == b.playerTurn
DoubleEnabled(b) == ~(~b.playerTurn \/ ~b.canDouble \/ b.bankroll < b.currentBet)
BetEnabled(b) == ~b.inRound

\* the simulation variables, which no page of the card games touches
sim == <<width, height, particles, cells, params, gravityOn, heatingOn,
         lastThermoMs, clock, pc, query, visited, forceLog, frame, coll, loop>>

\* no simulation is mounted
NoSim ==
  /\ width = 0 /\ height = 0 /\ particles = <<>> /\ cells = <<>>
  /\ params = HexaneParams /\ gravityOn = FALSE /\ heatingOn = FALSE
  /\ lastThermoMs = 0 /\ clock = 0 /\ pc = "idle" /\ query = <<>>
  /\ visited = <<>> /\ forceLog = <<>> /\ frame = <<>> /\ coll = <<>>
  /\ loop = Stopped

\* the table as mountBlackjack leaves it, and the table late in a shoe, with the
\* shoe at the last length at which startRound deals without reshuffling
BlackjackStarts ==
  {Table(ShoeDecks * DeckSize, 0, <<>>, <<>>)} \cup
  {Table(n, ShoeDecks * DeckSize - n - 5, <<"K", "K">>, <<"K", "6", "K">>) :
     n \in {ReshoeBelow}}

InitBlackjack ==
  /\ NoSim
  /\ app \in BlackjackStarts

\* the Deal button, blackjack.js:345
BjDeal ==
  /\ app.stage = "idle" /\ DealEnabled(app) /\ app.rounds < MaxRounds
  /\ \E c \in [1..4 -> Ranks] : app' = startRound(app, c)
  /\ UNCHANGED sim

\* the New Round button, blackjack.js:350-352
BjNewRound ==
  /\ app.stage = "idle" /\ DealEnabled(app) /\ app.rounds < MaxRounds
  /\ \E c \in [1..4 -> Ranks] :
       app' = IF ~app.inRound THEN startRound(app, c) ELSE app
  /\ UNCHANGED sim

\* the Hit button, blackjack.js:346
BjHit ==
  /\ app.stage = "idle" /\ HitEnabled(app) /\ app.hits < MaxHits
  /\ \E r \in Ranks : app' = playerHit(app, r)
  /\ UNCHANGED sim

\* the Stand button, blackjack.js:347
BjStand ==
  /\ app.stage = "idle" /\ HitEnabled(app)
  /\ app' = playerStand(app)
  /\ UNCHANGED sim

\* the Double button, blackjack.js:348
BjDouble ==
  /\ app.stage = "idle" /\ DoubleEnabled(app)
  /\ \E r \in Ranks : app' = playerDouble(app, r)
  /\ UNCHANGED sim

\* dealerPlayAndSettle, blackjack.js:291-295: the dealer takes one more card
BjDealerDraw ==
  /\ app.stage = "dealer"
  /\ dealerMustDraw(app.dealerHand)
  /\ \E r \in Ranks : app' = dealerDraw(app, r)
  /\ UNCHANGED sim

\* dealerPlayAndSettle, blackjack.js:296-302: the loop is over and the round settled
BjDealerSettle ==
  /\ app.stage = "dealer"
  /\ ~dealerMustDraw(app.dealerHand)
  /\ app' = settleOutcome(app)
  /\ UNCHANGED sim

\* the Reset Bankroll button, blackjack.js:349, which updateControls never disables
BjReset ==
  /\ app.stage = "idle"
  /\ app' = resetBankroll(app)
  /\ UNCHANGED sim

\* the bet field, blackjack.js:353-359
BjBet ==
  /\ app.stage = "idle" /\ BetEnabled(app)
  /\ \E v \in BetSamples : app' = betChange(app, v)
  /\ UNCHANGED sim

NextBlackjack ==
  \/ BjDeal \/ BjNewRound \/ BjHit \/ BjStand \/ BjDouble
  \/ BjDealerDraw \/ BjDealerSettle \/ BjReset \/ BjBet

SpecBlackjack == InitBlackjack /\ [][NextBlackjack]_vars

\* the dealer's total, an ace counted as 11 when that does not bust the hand
DealerTotal == blackjackScore(app.dealerHand).total

\* C23: after the player stands, or doubles without busting, the hole card is
\* revealed before the dealer draws; the dealer then takes exactly one card at a
\* time while the dealer total is below 17, takes none at 17 or more (a soft 17
\* included), and the round is settled only at a dealer total of 17 or more.
C23_DealerDrawsToSeventeen ==
  /\ [](app.stage = "dealer" => app.dealerHoleRevealed /\ app.inRound)
  /\ [][(app.stage = "dealer" /\ DealerTotal < 17) =>
          /\ app'.stage = "dealer"
          /\ Len(app'.dealerHand) = Len(app.dealerHand) + 1
          /\ app'.ended = app.ended]_vars
  /\ [][(app.stage = "dealer" /\ DealerTotal >= 17) =>
          /\ app'.dealerHand = app.dealerHand
          /\ app'.ended = app.ended + 1
          /\ ~app'.inRound]_vars

\* the dealer stood on a soft 17 after the player stood on two cards
C23_Witness ==
  /\ app.rounds >= 1 /\ app.ended = app.rounds /\ ~app.inRound
  /\ app.stage = "idle" /\ app.dealerHoleRevealed
  /\ app.dealerHand = <<"A", "6">>
  /\ app.playerHand = <<"K", "K">>

\* the stake of the round: the bet it was dealt with, twice that after a double
Stake == IF app.round.doubled THEN 2 * app.round.bet ELSE app.round.bet

\* what the round on the table is worth to the player
RoundResult ==
  LET ps == blackjackScore(app.playerHand)
      ds == blackjackScore(app.dealerHand)
  IN  IF ps.isBlackjack /\ ~ds.isBlackjack THEN (3 * app.round.bet) \div 2
      ELSE IF ps.isBlackjack /\ ds.isBlackjack THEN 0
      ELSE IF ds.isBlackjack \/ ps.isBust THEN 0 - Stake
      ELSE IF ds.isBust \/ ps.total > ds.total THEN Stake
      ELSE IF ps.total = ds.total THEN 0
      ELSE 0 - Stake

\* C24: a round that runs from Deal to its end with no Reset Bankroll in between
\* changes the bankroll by exactly floor(1.5 * bet) on an unmatched player
\* blackjack, 0 on a push, +stake on a win and -stake on a loss or bust, the stake
\* being the bet, doubled after a double down.
C24_RoundChangesBankrollByResult ==
  [][(app'.ended = app.ended + 1 /\ ~app'.round.reset) =>
       (app.bankroll - app.round.before = RoundResult)']_vars

\* the cards on the table
CardsOnTable ==
  {app.playerHand[i] : i \in 1..Len(app.playerHand)} \cup
  {app.dealerHand[i] : i \in 1..Len(app.dealerHand)}

\* C30: whatever the enabled controls are used for, the bankroll is never negative,
\* playerTurn implies inRound, canDouble implies playerTurn, and every card drawn
\* from the shoe is a card.
C30_TableInvariant ==
  /\ app.bankroll >= 0
  /\ app.playerTurn => app.inRound
  /\ app.canDouble => app.playerTurn
  /\ NoCard \notin CardsOnTable
  /\ app.shoe + app.discard + Len(app.playerHand) + Len(app.dealerHand)
       = ShoeDecks * DeckSize

\* the whole bankroll is staked on a hand dealt from the last 40 cards of the shoe
C30_Witness ==
  /\ app.inRound /\ app.playerTurn /\ app.canDouble
  /\ app.bankroll = 0 /\ app.currentBet = StartBankroll
  /\ app.shoe = ReshoeBelow - 4
  /\ Len(app.playerHand) = 2 /\ Len(app.dealerHand) = 2

\* a doubled round was pushed, and an unmatched blackjack was paid 37 on a bet of 25
C24_Witness ==
  /\ app.rounds = 2 /\ app.ended = 2 /\ ~app.round.reset
  /\ app.round.doubled /\ RoundResult = 0 /\ ~app.inRound
  /\ app.bankroll = StartBankroll + 37


\* ---------------------------------------------------------------------------
\* The router of the page shell (src/public/scripts/main.js:319-360)

\* hash changes that are followed
MaxNavs == 3

\* the routes of the model, the hash without "#/": home, two views mounted at
\* once, the lazily imported view and a route that does not exist
Routes == {"", "blackjack", "compendium", "mvcalc", "nowhere"}

\* the view a route renders, main.js:328-357
ViewOf(route) ==
  IF route = "" THEN "home"
  ELSE IF route \in {"blackjack", "compendium", "mvcalc"} THEN route
  ELSE "notfound"

\* the views whose mount sets or returns a cleanup: renderHome (main.js:267),
\* mountBlackjack (blackjack.js:367), mountMVCalc (part_000:715)
HasCleanup(view) == view \in {"home", "blackjack", "mvcalc"}

\* the page before DOMContentLoaded, main.js:9-10; mounts are numbered in the
\* order they happen, currentCleanup holds the number of the mount it came from
\* (0 for null), imports are numbered by the navigation that started them
Shell ==
  [loaded |-> FALSE, hash |-> "", mounted |-> [view |-> "none", id |-> 0],
   currentCleanup |-> 0, pending |-> {}, withCleanup |-> {}, cleaned |-> {},
   mounts |-> 0, navs |-> 0]

\* a view is mounted into the app container and its cleanup, if it has one, is
\* stored: renderHome .. renderGems, main.js:23-317, 340-346
Mount(a, view) ==
  LET id == a.mounts + 1
  IN  [a EXCEPT !.mounted = [view |-> view, id |-> id],
                !.mounts = id,
                !.currentCleanup = IF HasCleanup(view) THEN id ELSE 0,
                !.withCleanup = IF HasCleanup(view) THEN @ \cup {id} ELSE @]

\* the first statements of router(), main.js:322-327
RunCleanup(a) ==
  IF a.currentCleanup # 0
  THEN [a EXCEPT !.cleaned = @ \cup {a.currentCleanup}, !.currentCleanup = 0]
  ELSE a

\* router(), main.js:319-357, for the hash "#/" + route
router(a, route) ==
  LET a1 == RunCleanup([a EXCEPT !.hash = route, !.navs = @ + 1])
  IN  IF route = "mvcalc" THEN [a1 EXCEPT !.pending = @ \cup {a1.navs}]
      ELSE IF ViewOf(route) = "notfound"
      THEN [a1 EXCEPT !.mounted = [view |-> "notfound", id |-> 0]]
      ELSE Mount(a1, ViewOf(route))

\* the then-callback of import("./mvcalc.js"), main.js:345-347
importResolved(a, k) == Mount([a EXCEPT !.pending = @ \ {k}], "mvcalc")

\* the catch-callback of import("./mvcalc.js"), main.js:348-353
importFailed(a, k) ==
  [a EXCEPT !.pending = @ \ {k}, !.mounted = [view |-> "failed", id |-> 0]]

InitRouter ==
  /\ NoSim
  /\ app = Shell

\* DOMContentLoaded, main.js:360
RouterLoad ==
  /\ ~app.loaded
  /\ \E route \in Routes : app' = [router(app, route) EXCEPT !.loaded = TRUE]
  /\ UNCHANGED sim

\* hashchange, main.js:359
RouterHashChange ==
  /\ app.loaded /\ app.navs <= MaxNavs
  /\ \E route \in Routes \ {app.hash} : app' = router(app, route)
  /\ UNCHANGED sim

\* the module has loaded
RouterImportResolves ==
  /\ \E k \in app.pending : app' = importResolved(app, k)
  /\ UNCHANGED sim

\* the module failed to load
RouterImportFails ==
  /\ \E k \in app.pending : app' = importFailed(app, k)
  /\ UNCHANGED sim

NextRouter ==
  RouterLoad \/ RouterHashChange \/ RouterImportResolves \/ RouterImportFails

SpecRouter == InitRouter /\ [][NextRouter]_vars

\* C28: once the router and every pending import have settled, the view in the app
\* container is the one of the most recent route (for #/mvcalc, MV Calc or the
\* panel that says it failed to load), currentCleanup belongs to that view, and
\* the cleanup of every view mounted before it has been called.
C28_SettledViewIsLatestRoute ==
  (app.loaded /\ app.pending = {}) =>
    /\ \/ app.mounted.view = ViewOf(app.hash)
       \/ app.hash = "mvcalc" /\ app.mounted.view = "failed"
    /\ app.currentCleanup = (IF HasCleanup(app.mounted.view) THEN app.mounted.id ELSE 0)
    /\ app.withCleanup \ {app.mounted.id} \subseteq app.cleaned

\* the import of mvcalc resolved after the user had gone on to Blackjack: MV Calc
\* is mounted under the Blackjack route and the cleanup of Blackjack is lost
MvcalcMountedOverBlackjack ==
  /\ app.loaded /\ app.pending = {} /\ app.hash = "blackjack"
  /\ app.mounted.view = "mvcalc"
  /\ app.currentCleanup = app.mounted.id
  /\ \E id \in app.withCleanup : id # app.mounted.id /\ id \notin app.cleaned


\* ---------------------------------------------------------------------------
\* High-Low (src/public/scripts/highlow.js:3-115) on the deck helpers of deck.js
\* (src/unnamed/part_001)

\* the longest streak that is followed
MaxStreak == 2

\* ranks the deck deals in the model: the lowest, the next and the highest
HlRanks == {"A", "2", "K"}

\* rankToValue(rank), part_001:217-223
rankToValue(rank) ==
  IF rank = "A" THEN 1
  ELSE IF rank = "K" THEN 13
  ELSE IF rank = "2" THEN 2
  ELSE 0

\* compareHighLow(a, b), part_001:290-297
compareHighLow(a, b) ==
  IF rankToValue(a) < rankToValue(b) THEN -1
  ELSE IF rankToValue(a) > rankToValue(b) THEN 1
  ELSE 0

\* newRound(), highlow.js:97-103: a new deck of 52, whose top card has rank r,
\* becomes the current card; the streak is kept
newRound(h, r) ==
  [h EXCEPT !.deck = Popped(DeckSize), !.current = drawCard(DeckSize, r),
            !.next = NoCard]

\* the game as mountHighLow leaves it, highlow.js:4-10 and 111; lastDir and threw
\* are bookkeeping of the model: the last guess, and whether it ended in the
\* TypeError of compareHighLow on null
HighLow(r) ==
  newRound([deck |-> DeckSize, current |-> NoCard, next |-> NoCard, streak |-> 0,
            lastDir |-> "none", threw |-> FALSE], r)

\* guess(dir), highlow.js:65-95; r is the rank on top of the deck
guess(h, dir, r) ==
  LET cur == IF h.current = NoCard THEN drawCard(h.deck, r) ELSE h.current
      left == IF h.current = NoCard THEN Popped(h.deck) ELSE h.deck
      nxt == IF h.next = NoCard THEN drawCard(left, r) ELSE h.next
      left2 == IF h.next = NoCard THEN Popped(left) ELSE left
      cmp == compareHighLow(cur, nxt)
      correct == \/ dir = "higher" /\ cmp < 0
                 \/ dir = "lower" /\ cmp > 0
                 \/ dir = "equal" /\ cmp = 0
      h1 == [h EXCEPT !.current = cur, !.deck = left, !.lastDir = dir]
  IN  IF cur = NoCard THEN h1
      ELSE IF nxt = NoCard
      THEN [h1 EXCEPT !.next = NoCard, !.deck = left2, !.threw = TRUE]
      ELSE [h1 EXCEPT !.streak = IF correct THEN h.streak + 1 ELSE 0,
                      !.current = nxt, !.next = NoCard, !.deck = left2,
                      !.threw = FALSE]

InitHighLow ==
  /\ NoSim
  /\ \E r \in HlRanks : app = HighLow(r)

\* the Higher, Equal and Lower buttons, highlow.js:105-107
HlGuess ==
  /\ \E dir \in {"higher", "equal", "lower"}, r \in HlRanks :
       /\ app' = guess(app, dir, r)
       /\ app'.streak <= MaxStreak
  /\ UNCHANGED sim

\* the New Round button, highlow.js:108
HlNewRound ==
  /\ \E r \in HlRanks : app' = [newRound(app, r) EXCEPT !.lastDir = "none", !.threw = FALSE]
  /\ UNCHANGED sim

NextHighLow == HlGuess \/ HlNewRound

SpecHighLow == InitHighLow /\ [][NextHighLow]_vars

\* the position of a rank in the order of the game, the ace lowest
RankOrder(rank) == CHOOSE n \in 1..3 : <<"A", "2", "K">>[n] = rank

\* C29: whatever the sequence of guesses and New Round clicks, a guess compares
\* the current card with a card drawn from the deck (never null), completes,
\* adds 1 to the streak when it is right and resets the streak to 0 when it is
\* wrong, the ace ranking lowest.
C29_GuessComparesDrawnCard ==
  [][app'.lastDir # "none" =>
       /\ ~app'.threw
       /\ app.current # NoCard /\ app'.current # NoCard
       /\ LET right ==
                \/ app'.lastDir = "higher" /\ RankOrder(app'.current) > RankOrder(app.current)
                \/ app'.lastDir = "lower" /\ RankOrder(app'.current) < RankOrder(app.current)
                \/ app'.lastDir = "equal" /\ app'.current = app.current
          IN app'.streak = IF right THEN app.streak + 1 ELSE 0]_vars

\* the 52nd guess since New Round found the deck empty: the streak of 2 stands,
\* right or wrong
GuessOnEmptyDeck ==
  /\ app.threw /\ app.deck = 0 /\ app.streak = 2 /\ app.current = "K"
  /\ app.lastDir = "higher"


====
